---- MODULE Spec2Model ----
(***************************************************************************)
(* Workflow graphs of the repository (conditional fan-out/fan-in workflow  *)
(* and the two-agent pipeline) run by the workflow execution engine.       *)
(*                                                                         *)
(* The executors' handlers and the graph construction are translated from  *)
(* src/workflow/*.py.  The engine that routes their messages (it is        *)
(* imported, not part of src/) follows the engine design of the            *)
(* specification: edge routing, the fan-in barrier, the event stream and   *)
(* the execution states.                                                   *)
(***************************************************************************)
EXTENDS Integers, Sequences, FiniteSets, TLC

(***************************************************************************)
(* Bounds and program constants                                            *)
(***************************************************************************)
MaxWorkers == 2           \* widths 0..MaxWorkers are explored in Spec
MaxSeed == 1              \* seeds 0..MaxSeed of the random generator
TestInputA == 5           \* test_cases = [8, 12, 5]: input and width of the last case
TestInputB == 12          \* test_cases = [8, 12, 5]: the rejected input
Threshold == 10           \* msg <= 10
FactorMin == 1            \* random.randint(1, 5)
FactorMax == 5
NoiseMin == 0             \* random.randint(0, 10)
NoiseMax == 10
DelayMin == 1             \* random.uniform(0.1, 0.5), in tenths of a second
DelayMax == 5

Runs == {1, 2}            \* executions of one built graph
ReuseWidths == {0, 1, 2}  \* widths of the graph that is run twice
TestInputC == 8           \* test_cases = [8, 12, 5]
Numbers == {-3, 0, TestInputA, TestInputC, Threshold, Threshold + 1, TestInputB}
Messages == {"hello", "question"}

MaxPolls == 2             \* polls that fit in max_wait (300 s at one poll per 5 s, scaled)
PollInterval == 5         \* await asyncio.sleep(5)
MaxQueries == 2           \* queries in one search_web call
MaxWait == 10             \* GammaAPIClient.max_wait, seconds (300 in the source, scaled)
poll_interval == 5        \* GammaAPIClient.poll_interval, seconds
\* what the research agent's text parses to: a JSON object with a numeric
\* number_of_slides, an object without one, another JSON value, no JSON
TextKinds == {"object", "object_bad_slides", "not_object", "invalid"}
PostOutcomes == {"raise", "bad_status", "no_id", "ok"}
GetOutcomes == {"raise", "non_200", "pending", "completed"}
DownloadOutcomes == {"raise", "bad_status", "ok"}
\* what call_gamma_api finds outside the program: the debug file, the key, the POST
GammaEnv == [file_ok : BOOLEAN, has_key : BOOLEAN, post : PostOutcomes]
\* what one iteration of the polling loop finds: the GET, the exportUrl, the download
PollEnv == [get : GetOutcomes, url : BOOLEAN, download : DownloadOutcomes]

VARIABLES
    graph,   \* the built workflow (read-only once built)
    rng,     \* state of the process-wide random generator
    exec,    \* per execution: status, in-flight envelopes, fan-in, events, output
    client,  \* one generate_presentation_from_content call and its GammaAPIClient
    search,  \* one search_web call and its per-query tasks
    chat     \* the interactive session of presentation_agents.main

vars == <<graph, rng, exec, client, search, chat>>

\* the command-line program before anything is called
InitClient ==
    [pc |-> "idle", start |-> 0, now |-> 0, log |-> <<>>, polled |-> <<>>,
     raised |-> <<>>, returned |-> <<>>, result |-> <<>>]

InitSearch == [pc |-> "idle", queries |-> <<>>, tasks |-> <<>>, output |-> <<>>]

InitChat ==
    [pc |-> "prompt", line |-> <<>>, response |-> <<>>,
     last |-> "none", ended_by |-> "none"]

ToolsIdle == client = InitClient /\ search = InitSearch /\ chat = InitChat

(***************************************************************************)
(* Node ids                                                                *)
(***************************************************************************)
CheckpointId == <<"checkpoint", 0>>
SplitterId == <<"splitter", 0>>
AggregatorId == <<"aggregator", 0>>
WorkerId(i) == <<"worker", i>>           \* f"worker_{i:02d}"
ClassifyId == <<"classify_agent", 0>>
RespondId == <<"response_agent", 0>>
OutlineId == <<"OutlineAgent", 0>>
ResearchId == <<"ResearchAgent", 0>>
GammaId == <<"gamma_api", 0>>

WorkerIds(n) == [i \in 1..n |-> WorkerId(i - 1)]   \* list in range(num_workers) order

SeqRange(s) == {s[i] : i \in 1..Len(s)}

(***************************************************************************)
(* Graph construction                                                      *)
(***************************************************************************)
PlainEdge(a, b, c) == [src |-> a, dst |-> b, cond |-> c]

\* add_fan_out_edges(source, targets): one unguarded edge per target, in order
FanOutEdges(a, targets) == [i \in 1..Len(targets) |-> PlainEdge(a, targets[i], "none")]

\* add_fan_in_edges(sources, target): the group derived from the fan-in edges
\* sharing the target; no edge, no group
FanInGroups(sources, target) ==
    IF Len(sources) = 0 THEN {} ELSE {[sources |-> sources, target |-> target]}

\* set_start_executor was never called
NoStart == <<"", 0>>

\* some plain, fan-out or fan-in edge names a node the builder does not hold
HasUnregistered(b) ==
    \/ \E i \in 1..Len(b.edges) : b.edges[i].src \notin b.nodes \/ b.edges[i].dst \notin b.nodes
    \/ \E grp \in b.fanin :
          grp.target \notin b.nodes \/ ~(SeqRange(grp.sources) \subseteq b.nodes)

GraphError(b) ==
    [ kind |-> "GraphError", nodes |-> {}, start |-> NoStart, edges |-> <<>>,
      fanin |-> {}, num_workers |-> 0, builder |-> b ]

\* variant: build() hands out whatever the builder holds
build_unchecked(b) == b

\* build(): the immutable graph, or GraphError and no graph
build(b) ==
    IF b.start = NoStart \/ HasUnregistered(b) THEN GraphError(b) ELSE b

\* uses of the builder that leave a step out
BuilderNoStart(b) == [b EXCEPT !.start = NoStart]
BuilderDangling(b) == [b EXCEPT !.nodes = @ \ {b.edges[1].dst}]

\* variant: range(num_workers - 1), one worker short
create_workflow_one_short(num_workers) ==
    LET workers == WorkerIds(num_workers - 1) IN
    [ kind  |-> "fanout",
      nodes |-> {CheckpointId, SplitterId, AggregatorId} \cup SeqRange(workers),
      start |-> CheckpointId,
      edges |-> <<PlainEdge(CheckpointId, SplitterId, "le_threshold")>>
                   \o FanOutEdges(SplitterId, workers),
      fanin |-> FanInGroups(workers, AggregatorId),
      num_workers |-> num_workers ]

\* variant: add_fan_in_edges(workers[:1], aggregator), the barrier over one member
create_workflow_partial_fan_in(num_workers) ==
    LET workers == WorkerIds(num_workers) IN
    [ kind  |-> "fanout",
      nodes |-> {CheckpointId, SplitterId, AggregatorId} \cup SeqRange(workers),
      start |-> CheckpointId,
      edges |-> <<PlainEdge(CheckpointId, SplitterId, "le_threshold")>>
                   \o FanOutEdges(SplitterId, workers),
      fanin |-> FanInGroups([i \in 1..(IF Len(workers) = 0 THEN 0 ELSE 1) |-> workers[i]],
                            AggregatorId),
      num_workers |-> num_workers ]

\* variant: add_edge(checkpoint, splitter) without its condition
create_workflow_unguarded(num_workers) ==
    LET workers == WorkerIds(num_workers) IN
    [ kind  |-> "fanout",
      nodes |-> {CheckpointId, SplitterId, AggregatorId} \cup SeqRange(workers),
      start |-> CheckpointId,
      edges |-> <<PlainEdge(CheckpointId, SplitterId, "none")>>
                   \o FanOutEdges(SplitterId, workers),
      fanin |-> FanInGroups(workers, AggregatorId),
      num_workers |-> num_workers ]

\* the builder of create_conditional_fan_out_workflow before builder.build()
conditional_fan_out_builder(num_workers) ==
    LET workers == WorkerIds(num_workers) IN
    [ kind  |-> "fanout",
      nodes |-> {CheckpointId, SplitterId, AggregatorId} \cup SeqRange(workers),
      start |-> CheckpointId,
      edges |-> <<PlainEdge(CheckpointId, SplitterId, "le_threshold")>>
                   \o FanOutEdges(SplitterId, workers),
      fanin |-> FanInGroups(workers, AggregatorId),
      num_workers |-> num_workers ]

create_conditional_fan_out_workflow(num_workers) ==
    build(conditional_fan_out_builder(num_workers))

\* variant: the builder without add_edge(classify_agent, response_agent)
create_workflow_no_edge ==
    [ kind  |-> "pipeline",
      nodes |-> {ClassifyId, RespondId},
      start |-> ClassifyId,
      edges |-> <<>>,
      fanin |-> {},
      num_workers |-> 0 ]

\* a graph of the same executors whose aggregator does not wait for every
\* worker: the fan-in joins the first worker only
early_yield_workflow(num_workers) ==
    LET workers == WorkerIds(num_workers) IN
    build([ kind  |-> "fanout",
            nodes |-> {CheckpointId, SplitterId, AggregatorId} \cup SeqRange(workers),
            start |-> CheckpointId,
            edges |-> <<PlainEdge(CheckpointId, SplitterId, "le_threshold")>>
                         \o FanOutEdges(SplitterId, workers),
            fanin |-> FanInGroups(<<WorkerId(0)>>, AggregatorId),
            num_workers |-> num_workers ])

\* a graph of the same executors one of whose fan-in members is never
\* dispatched to: the fan-out leaves out the last worker
stalled_member_workflow(num_workers) ==
    LET workers == WorkerIds(num_workers) IN
    build([ kind  |-> "fanout",
            nodes |-> {CheckpointId, SplitterId, AggregatorId} \cup SeqRange(workers),
            start |-> CheckpointId,
            edges |-> <<PlainEdge(CheckpointId, SplitterId, "le_threshold")>>
                         \o FanOutEdges(SplitterId, WorkerIds(num_workers - 1)),
            fanin |-> FanInGroups(workers, AggregatorId),
            num_workers |-> num_workers ])

\* a graph of the same executors one of whose fan-in members delivers twice:
\* the fan-out names the first worker twice
double_dispatch_workflow(num_workers) ==
    LET workers == WorkerIds(num_workers) IN
    build([ kind  |-> "fanout",
            nodes |-> {CheckpointId, SplitterId, AggregatorId} \cup SeqRange(workers),
            start |-> CheckpointId,
            edges |-> <<PlainEdge(CheckpointId, SplitterId, "le_threshold")>>
                         \o FanOutEdges(SplitterId, <<WorkerId(0)>> \o workers),
            fanin |-> FanInGroups(workers, AggregatorId),
            num_workers |-> num_workers ])

\* the builder of create_workflow before .build()
agent_workflow_builder ==
    [ kind  |-> "pipeline",
      nodes |-> {ClassifyId, RespondId},
      start |-> ClassifyId,
      edges |-> <<PlainEdge(ClassifyId, RespondId, "none")>>,
      fanin |-> {},
      num_workers |-> 0 ]

create_workflow == build(agent_workflow_builder)

\* outline_agent -> research_agent -> GammaAPIExecutor()
create_presentation_workflow ==
    build([ kind  |-> "gamma",
            nodes |-> {OutlineId, ResearchId, GammaId},
            start |-> OutlineId,
            edges |-> <<PlainEdge(OutlineId, ResearchId, "none"),
                        PlainEdge(ResearchId, GammaId, "none")>>,
            fanin |-> {},
            num_workers |-> 0 ])

\* variant: msg < 10
EdgeFiresStrict(e, v) ==
    \/ e.cond = "none"
    \/ e.cond = "le_threshold" /\ v \in Int /\ v < Threshold

\* condition=lambda msg: isinstance(msg, int) and msg <= 10
EdgeFires(e, v) ==
    \/ e.cond = "none"
    \/ e.cond = "le_threshold" /\ v \in Int /\ v <= Threshold

(***************************************************************************)
(* Random generator: a deterministic stream fixed by its seed.  Init draws *)
(* the seed; every call advances the state.                                *)
(***************************************************************************)
RngNext(s) == (5 * s + 3) % 16
RandInt(lo, hi, s) == lo + (s % (hi - lo + 1))      \* random.randint(lo, hi)

(***************************************************************************)
(* Data models                                                             *)
(***************************************************************************)
WorkerResult(worker_id, input_value, output_value, processing_time) ==
    [ worker_id |-> worker_id, input_value |-> input_value,
      output_value |-> output_value, processing_time |-> processing_time ]

\* variant: total_output = result.output_value
TotalOutputLast(results) ==
    IF Len(results) = 0 THEN 0 ELSE results[Len(results)].output_value

RECURSIVE TotalOutput(_)
TotalOutput(results) ==
    IF Len(results) = 0 THEN 0
    ELSE Head(results).output_value + TotalOutput(Tail(results))

Line(kind, worker_id, input_value, output_value) ==
    [ kind |-> kind, worker_id |-> worker_id, input_value |-> input_value,
      output_value |-> output_value ]
NoWorker == <<"", 0>>

\* output_lines of AggregatorExecutor.aggregate, joined into final_output
FinalOutput(results) ==
    <<Line("rule", NoWorker, 0, 0), Line("title", NoWorker, 0, 0), Line("rule", NoWorker, 0, 0)>>
    \o [i \in 1..Len(results) |->
           Line("result", results[i].worker_id, results[i].input_value, results[i].output_value)]
    \o <<Line("rule", NoWorker, 0, 0),
         Line("total", NoWorker, 0, TotalOutput(results)),
         Line("rule", NoWorker, 0, 0)>>

(***************************************************************************)
(* What a handler asks of its context, in program order                    *)
(***************************************************************************)
Ev(tag, data) == [op |-> "event", tag |-> tag, data |-> <<data>>]   \* ctx.add_event
Send(value) == [op |-> "send", tag |-> "", data |-> <<value>>]      \* ctx.send_message
Yield(value) == [op |-> "yield", tag |-> "", data |-> <<value>>]    \* ctx.yield_output
Raise(cause) == [op |-> "raise", tag |-> "", data |-> <<cause>>]    \* an exception leaves the handler
Sleep(k) == [op |-> "sleep", tag |-> "", data |-> <<k>>]            \* await asyncio.sleep
\* a call that leaves the process (file, HTTP) and how it came back
IO(call, outcome) == [op |-> "io", tag |-> call, data |-> <<outcome>>]

(***************************************************************************)
(* Executors' handlers                                                     *)
(***************************************************************************)
CheckpointProcess(number) == <<Ev("checkpoint", number), Send(number)>>

\* variant: the splitter sends a value of its own making
SplitterSplitChanged(number) == <<Ev("split", number), Send(number + 1)>>

SplitterSplit(number) == <<Ev("split", number), Send(number)>>

\* WorkerExecutor.process up to its await asyncio.sleep
WorkerProcessBegin(number) == <<Ev("started", number)>>

\* variant: every worker reports the first worker's id
WorkerProcessEndSameId(worker_id, number, factor, noise, delay) ==
    LET output == number * factor + noise
        result == WorkerResult(WorkerId(0), number, output, delay)
    IN  <<Ev("completed", output), Send(result)>>

\* variant: the result is built but never sent
WorkerProcessEndNoSend(worker_id, number, factor, noise, delay) ==
    LET output == number * factor + noise
    IN  <<Ev("completed", output)>>

\* variant: send_message before the completed event
WorkerProcessEndSendFirst(worker_id, number, factor, noise, delay) ==
    LET output == number * factor + noise
        result == WorkerResult(worker_id, number, output, delay)
    IN  <<Send(result), Ev("completed", output)>>

\* WorkerExecutor.process after the sleep
WorkerProcessEnd(worker_id, number, factor, noise, delay) ==
    LET output == number * factor + noise
        result == WorkerResult(worker_id, number, output, delay)
    IN  <<Ev("completed", output), Send(result)>>

\* variant: the summary is built but never yielded
AggregatorAggregateNoYield(results) ==
    <<Ev("aggregating", Len(results)), Ev("aggregated", 0)>>

AggregatorAggregate(results) ==
    <<Ev("aggregating", Len(results)), Ev("aggregated", 0), Yield(FinalOutput(results))>>

\* the two chat agents of create_workflow, as nodes of the pipeline
ClassifyOutput(msg) == <<"MessageData", msg>>
RespondOutput(data) == <<"response", data>>
ClassifyAgentRun(msg) == <<Ev("agent_update", msg), Send(ClassifyOutput(msg))>>
ResponseAgentRun(data) == <<Ev("agent_update", data), Yield(RespondOutput(data))>>

\* the two agents of the presentation workflow, as nodes
OutlineOutput(msg) == <<"outline", msg>>
AgentText(kind) == [text |-> kind]          \* response.agent_run_response.text
OutlineAgentRun(msg) == <<Ev("agent_update", msg), Send(OutlineOutput(msg))>>
ResearchAgentRun(outline, kind) == <<Ev("agent_update", outline), Send(AgentText(kind))>>

\* one iteration of GammaAPIExecutor._poll_for_completion after k sleeps
\* (k * 5 seconds elapsed): the loop condition, the GET, status == "completed"
_poll_for_completion(k, p) ==
    IF k >= MaxPolls THEN [kind |-> "raise", cause |-> "TimeoutError"]
    ELSE IF p.get = "raise" THEN [kind |-> "raise", cause |-> "RequestException"]
    ELSE IF p.get = "completed" THEN [kind |-> "return", cause |-> ""]
    ELSE [kind |-> "sleep", cause |-> ""]

\* variant: the PDF is saved whatever the status code
_download_pdf_unchecked(p) ==
    IF p.download = "raise" THEN [kind |-> "raise", cause |-> "RequestException"]
    ELSE [kind |-> "return", cause |-> ""]

\* GammaAPIExecutor._download_pdf
_download_pdf(p) ==
    IF p.download = "ok" THEN [kind |-> "return", cause |-> ""]
    ELSE IF p.download = "bad_status" THEN [kind |-> "raise", cause |-> "RuntimeError"]
    ELSE [kind |-> "raise", cause |-> "RequestException"]

\* call_gamma_api from "completed_data = await self._poll_for_completion"
\* on, inside its try block: every exception becomes a yielded message
GammaPollFrom(k, p) ==
    LET polled == _poll_for_completion(k, p)
        get == IF k >= MaxPolls THEN <<>> ELSE <<IO("get", p.get)>>
    IN  IF polled.kind = "sleep" THEN get \o <<Sleep(k)>>
        ELSE IF polled.kind = "raise" THEN get \o <<Yield("Exception calling Gamma API")>>
        ELSE IF p.url
             THEN get \o <<IO("download", p.download)>> \o
                  (IF _download_pdf(p).kind = "return"
                   THEN <<Yield("Presentation created successfully")>>
                   ELSE <<Yield("Exception calling Gamma API")>>)
             ELSE get \o <<Yield("No PDF URL in response")>>

\* call_gamma_api from its try statement on
GammaPost(env, p) ==
    <<IO("post", env.post)>> \o
    (IF env.post = "raise" THEN <<Yield("Exception calling Gamma API")>>
     ELSE IF env.post = "bad_status" THEN <<Yield("Gamma API Error")>>
     ELSE IF env.post = "no_id" THEN <<Yield("No generation ID in response")>>
     ELSE GammaPollFrom(0, p))

\* variant: json.loads and the debug file moved inside the try block
call_gamma_api_guarded(response, env, p) ==
    IF response.text \in {"invalid", "not_object"}
    THEN <<IO("json.loads", "raise"), Yield("Exception calling Gamma API")>>
    ELSE IF ~env.file_ok
    THEN <<IO("json.loads", "ok"), IO("open", "raise"), Yield("Exception calling Gamma API")>>
    ELSE <<IO("json.loads", "ok"), IO("open", "ok")>> \o
         (IF ~env.has_key
          THEN <<Yield("Error: GAMMA_API_KEY not found in environment")>>
          ELSE IF response.text = "object_bad_slides"
          THEN <<Raise("TypeError")>>             \* payload: number_of_slides + 1
          ELSE GammaPost(env, p))

\* GammaAPIExecutor.call_gamma_api up to its first suspension
call_gamma_api(response, env, p) ==
    IF response.text = "invalid"
    THEN <<IO("json.loads", "raise"), Raise("JSONDecodeError")>>
    ELSE IF response.text = "not_object"
    THEN <<IO("json.loads", "ok"), Raise("AttributeError")>>        \* response_json.get
    ELSE IF ~env.file_ok
    THEN <<IO("json.loads", "ok"), IO("open", "raise"), Raise("OSError")>>
    ELSE <<IO("json.loads", "ok"), IO("open", "ok")>> \o
         (IF ~env.has_key
          THEN <<Yield("Error: GAMMA_API_KEY not found in environment")>>
          ELSE IF response.text = "object_bad_slides"
          THEN <<Raise("TypeError")>>             \* payload: number_of_slides + 1
          ELSE GammaPost(env, p))

\* what a suspended invocation does when the cancellation reaches it in its
\* sleep (asyncio.CancelledError, which is not an Exception)
\* variant: the handler's except clause catches the cancellation as well
call_gamma_api_cancelled_caught == <<Yield("Exception calling Gamma API")>>

\* call_gamma_api: "except Exception" lets the cancellation pass
call_gamma_api_cancelled == <<>>

\* WorkerExecutor.process: no try around its sleep
WorkerProcessCancelled == <<>>

OnCancel(node) ==
    IF node = GammaId THEN call_gamma_api_cancelled ELSE WorkerProcessCancelled

(***************************************************************************)
(* Execution engine                                                        *)
(***************************************************************************)
InitExec(g) ==
    [ status    |-> "Pending",
      input     |-> <<>>,
      inbox     |-> [n \in g.nodes |-> <<>>],   \* envelopes in flight, per target
      sleeping  |-> {},                          \* invocations suspended in a sleep
      late      |-> {},                          \* invocations in flight when the run ended
      calls     |-> [n \in g.nodes |-> <<>>],   \* values each node was invoked with
      delivered |-> [n \in g.nodes |-> {}],     \* fan-in: members that delivered
      acc       |-> [n \in g.nodes |-> <<>>],   \* fan-in: accumulated sequence
      events    |-> <<>>,
      output    |-> <<>>,
      io        |-> <<>>,
      routed    |-> <<>> ]                       \* per value sent: the targets dispatched to                       \* calls its handlers made outside the process

TerminalStates == {"Completed", "Halted", "Failed", "Cancelled"}

Event(tag, node, data) == [tag |-> tag, node |-> node, data |-> data]

\* entering a terminal state: in-flight work is abandoned, the terminal state is
\* the final event of the stream
Terminate(ex, st, node, out) ==
    [ex EXCEPT !.status = st,
               !.output = out,
               !.inbox = [n \in DOMAIN ex.inbox |-> <<>>],
               !.sleeping = {},
               !.late = ex.sleeping,
               !.events = Append(@, Event(st, node, out))]

AddEvent(ex, node, tag, data) ==
    IF ex.status = "Running"
    THEN [ex EXCEPT !.events = Append(@, Event(tag, node, data))]
    ELSE ex

\* NodeExecutionError{nodeID, cause}: an error event, then Failed
Fail(ex, node, cause) ==
    IF ex.status = "Running"
    THEN Terminate(AddEvent(ex, node, "error", <<cause>>), "Failed", node, <<>>)
    ELSE ex

YieldOutput(ex, node, value) ==
    IF ex.status = "Running"
    THEN Terminate(ex, "Completed", node, <<value>>)
    ELSE ex

\* a handler runs only while its execution does
RecordIO(ex, call, outcome) ==
    IF ex.status = "Running"
    THEN [ex EXCEPT !.io = Append(@, [call |-> call, outcome |-> outcome])]
    ELSE ex

\* the invocation waits in a sleep; number is what it resumes with
Suspend(ex, node, k) ==
    IF ex.status = "Running"
    THEN [ex EXCEPT !.sleeping = @ \cup {[node |-> node, number |-> k, delay |-> PollInterval,
                                           call |-> Len(ex.calls[node])]}]
    ELSE ex

\* a node handed the engine a value to route
LogSend(ex, src, v) ==
    [ex EXCEPT !.routed = Append(@, [src |-> src, value |-> <<v>>, targets |-> <<>>,
                                     at |-> Len(ex.events)])]   \* events emitted before it

\* one firing edge: an envelope of its own for the edge's target
Dispatch(ex, e, v) ==
    [ex EXCEPT !.inbox[e.dst] = Append(@, v),
               !.routed[Len(ex.routed)].targets = Append(@, e.dst)]

\* variant: routing stops at the first edge that fires
RECURSIVE RouteEdgesFirstMatch(_, _, _, _, _)
RouteEdgesFirstMatch(ex, edges, i, src, v) ==
    IF i > Len(edges) THEN ex
    ELSE LET e == edges[i]
         IN  IF e.src = src /\ EdgeFires(e, v)
             THEN Dispatch(ex, e, v)
             ELSE RouteEdgesFirstMatch(ex, edges, i + 1, src, v)

\* plain and fan-out edges of src, in declaration order
RECURSIVE RouteEdges(_, _, _, _, _)
RouteEdges(ex, edges, i, src, v) ==
    IF i > Len(edges) THEN ex
    ELSE LET e == edges[i]
             ex1 == IF e.src = src /\ EdgeFires(e, v)
                    THEN Dispatch(ex, e, v)
                    ELSE ex
         IN  RouteEdges(ex1, edges, i + 1, src, v)

\* variant: the accumulators live with the graph, shared by its executions
AccOwnerShared(r) == 1

\* the execution whose state holds the fan-in accumulators an execution uses:
\* one accumulator per execution per declared group
AccOwner(r) == r

\* variant: a second delivery replaces the member's accumulated value
FanInDeliverOverwrite(E, r, grp, src, v) ==
    LET t == grp.target
        d == E[r].delivered[t] \cup {src}
        a == IF src \in E[r].delivered[t]
             THEN [i \in 1..Len(E[r].acc[t]) |->
                      IF E[r].acc[t][i].worker_id = src THEN v ELSE E[r].acc[t][i]]
             ELSE Append(E[r].acc[t], v)
    IN  IF d = SeqRange(grp.sources) /\ src \notin E[r].delivered[t]
        THEN [E EXCEPT ![r].delivered[t] = d, ![r].acc[t] = <<>>,
                       ![r].inbox[t] = Append(@, a)]
        ELSE [E EXCEPT ![r].delivered[t] = d, ![r].acc[t] = a]

\* E is the state of all executions, r the one the delivery belongs to
FanInDeliver(E, r, grp, src, v) ==
    LET t == grp.target
        o == AccOwner(r)
        d == E[o].delivered[t] \cup {src}
        a == Append(E[o].acc[t], v)
    IN  IF src \in E[o].delivered[t]
        THEN [E EXCEPT ![r] = Fail(@, src, "second delivery")]
        ELSE IF d = SeqRange(grp.sources)
        THEN LET E1 == [E EXCEPT ![o].delivered[t] = d, ![o].acc[t] = <<>>]
             IN  [E1 EXCEPT ![r].inbox[t] = Append(@, a)]
        ELSE [E EXCEPT ![o].delivered[t] = d, ![o].acc[t] = a]

RouteFanIn(E, r, g, src, v) ==
    LET gs == {grp \in g.fanin : src \in SeqRange(grp.sources)}
    IN  IF gs = {} \/ E[r].status # "Running" THEN E
        ELSE FanInDeliver(E, r, CHOOSE grp \in gs : TRUE, src, v)

\* variant: a value is routed whatever the state of its execution
SendMessageAnyState(E, r, g, src, v) ==
    RouteFanIn([E EXCEPT ![r] = RouteEdges(LogSend(@, src, v), g.edges, 1, src, v)],
               r, g, src, v)

SendMessage(E, r, g, src, v) ==
    IF E[r].status = "Running"
    THEN RouteFanIn([E EXCEPT ![r] = RouteEdges(LogSend(@, src, v), g.edges, 1, src, v)],
                    r, g, src, v)
    ELSE E

RECURSIVE ApplyOps(_, _, _, _, _)
ApplyOps(E, r, g, node, ops) ==
    IF Len(ops) = 0 THEN E
    ELSE LET o == Head(ops)
             E1 == CASE o.op = "event" -> [E EXCEPT ![r] = AddEvent(@, node, o.tag, o.data)]
                     [] o.op = "send"  -> SendMessage(E, r, g, node, o.data[1])
                     [] o.op = "yield" -> [E EXCEPT ![r] = YieldOutput(@, node, o.data[1])]
                     [] o.op = "raise" -> [E EXCEPT ![r] = Fail(@, node, o.data[1])]
                     [] o.op = "sleep" -> [E EXCEPT ![r] = Suspend(@, node, o.data[1])]
                     [] o.op = "io"    -> [E EXCEPT ![r] = RecordIO(@, o.tag, o.data[1])]
         IN  ApplyOps(E1, r, g, node, Tail(ops))

\* the engine takes the next envelope addressed to n and invokes n with it
Ready(r, n) ==
    /\ n \in graph.nodes
    /\ exec[r].status = "Running"
    /\ Len(exec[r].inbox[n]) > 0
Arg(r, n) == Head(exec[r].inbox[n])
Dequeue(ex, n) ==
    [ex EXCEPT !.inbox[n] = Tail(@), !.calls[n] = Append(@, Head(ex.inbox[n]))]

InputsFor(g) == IF g.kind = "fanout" THEN Numbers ELSE Messages

\* two runs of one graph with different initial values
ReuseInputs(g, r) ==
    IF g.kind = "fanout"
    THEN (IF r = 1 THEN {TestInputA, TestInputB} ELSE {TestInputC})
    ELSE (IF r = 1 THEN {"hello"} ELSE {"question"})

(***************************************************************************)
(* Actions                                                                 *)
(***************************************************************************)
Run(r, v) ==
    /\ graph.kind # "GraphError"          \* build() raised: there is no workflow to run
    /\ exec[r].status = "Pending"
    /\ exec' = [exec EXCEPT ![r] = [@ EXCEPT !.status = "Running",
                                              !.input = <<v>>,
                                              !.inbox[graph.start] = <<v>>]]
    /\ UNCHANGED <<graph, rng, client, search, chat>>

CheckpointStep(r) ==
    /\ Ready(r, CheckpointId)
    /\ exec' = ApplyOps([exec EXCEPT ![r] = Dequeue(@, CheckpointId)], r, graph, CheckpointId,
                      CheckpointProcess(Arg(r, CheckpointId)))
    /\ UNCHANGED <<graph, rng, client, search, chat>>

SplitterStep(r) ==
    /\ Ready(r, SplitterId)
    /\ exec' = ApplyOps([exec EXCEPT ![r] = Dequeue(@, SplitterId)], r, graph, SplitterId,
                      SplitterSplit(Arg(r, SplitterId)))
    /\ UNCHANGED <<graph, rng, client, search, chat>>

\* variant: a worker starts only when no other worker is in its sleep
WorkerStartSerial(r, i) ==
    LET w == WorkerId(i)
        delay == RandInt(DelayMin, DelayMax, rng)
    IN  /\ Ready(r, w)
        /\ exec[r].sleeping = {}
        /\ exec' =
              LET E1 == ApplyOps([exec EXCEPT ![r] = Dequeue(@, w)], r, graph, w,
                                 WorkerProcessBegin(Arg(r, w)))
              IN  [E1 EXCEPT ![r].sleeping =
                      @ \cup {[node |-> w, number |-> Arg(r, w), delay |-> delay,
                               call |-> Len(E1[r].calls[w])]}]
        /\ rng' = RngNext(rng)
        /\ UNCHANGED <<graph, client, search, chat>>

WorkerStart(r, i) ==
    LET w == WorkerId(i)
        delay == RandInt(DelayMin, DelayMax, rng)
    IN  /\ Ready(r, w)
        /\ exec' =
              LET E1 == ApplyOps([exec EXCEPT ![r] = Dequeue(@, w)], r, graph, w,
                                 WorkerProcessBegin(Arg(r, w)))
              IN  [E1 EXCEPT ![r].sleeping =
                      @ \cup {[node |-> w, number |-> Arg(r, w), delay |-> delay,
                               call |-> Len(E1[r].calls[w])]}]
        /\ rng' = RngNext(rng)
        /\ UNCHANGED <<graph, client, search, chat>>

WorkerResume(r, i) ==
    LET w == WorkerId(i)
        factor == RandInt(FactorMin, FactorMax, rng)
        noise == RandInt(NoiseMin, NoiseMax, RngNext(rng))
    IN  /\ exec[r].status = "Running"
        /\ \E s \in exec[r].sleeping :
              /\ s.node = w
              /\ exec' = ApplyOps([exec EXCEPT ![r].sleeping = @ \ {s}], r, graph, w,
                                WorkerProcessEnd(w, s.number, factor, noise, s.delay))
        /\ rng' = RngNext(RngNext(rng))
        /\ UNCHANGED <<graph, client, search, chat>>

\* a worker that was in flight when its execution ended and did not stop at
\* its sleep: it runs to its end, and what it sends or emits goes nowhere
WorkerOutlive(r, i) ==
    LET w == WorkerId(i)
        factor == RandInt(FactorMin, FactorMax, rng)
        noise == RandInt(NoiseMin, NoiseMax, RngNext(rng))
    IN  /\ exec[r].status \in TerminalStates
        /\ \E s \in exec[r].late :
              /\ s.node = w
              /\ exec' = ApplyOps([exec EXCEPT ![r].late = @ \ {s}], r, graph, w,
                                WorkerProcessEnd(w, s.number, factor, noise, s.delay))
        /\ rng' = RngNext(RngNext(rng))
        /\ UNCHANGED <<graph, client, search, chat>>

AggregatorStep(r) ==
    /\ Ready(r, AggregatorId)
    /\ exec' = ApplyOps([exec EXCEPT ![r] = Dequeue(@, AggregatorId)], r, graph, AggregatorId,
                      AggregatorAggregate(Arg(r, AggregatorId)))
    /\ UNCHANGED <<graph, rng, client, search, chat>>

ClassifyStep(r) ==
    /\ Ready(r, ClassifyId)
    /\ exec' = ApplyOps([exec EXCEPT ![r] = Dequeue(@, ClassifyId)], r, graph, ClassifyId,
                      ClassifyAgentRun(Arg(r, ClassifyId)))
    /\ UNCHANGED <<graph, rng, client, search, chat>>

RespondStep(r) ==
    /\ Ready(r, RespondId)
    /\ exec' = ApplyOps([exec EXCEPT ![r] = Dequeue(@, RespondId)], r, graph, RespondId,
                      ResponseAgentRun(Arg(r, RespondId)))
    /\ UNCHANGED <<graph, rng, client, search, chat>>

OutlineStep(r) ==
    /\ Ready(r, OutlineId)
    /\ exec' = ApplyOps([exec EXCEPT ![r] = Dequeue(@, OutlineId)], r, graph, OutlineId,
                      OutlineAgentRun(Arg(r, OutlineId)))
    /\ UNCHANGED <<graph, rng, client, search, chat>>

ResearchStep(r) ==
    /\ Ready(r, ResearchId)
    /\ \E kind \in TextKinds :
          exec' = ApplyOps([exec EXCEPT ![r] = Dequeue(@, ResearchId)], r, graph, ResearchId,
                           ResearchAgentRun(Arg(r, ResearchId), kind))
    /\ UNCHANGED <<graph, rng, client, search, chat>>

GammaStart(r) ==
    /\ Ready(r, GammaId)
    /\ \E env \in GammaEnv, p \in PollEnv :
          exec' = ApplyOps([exec EXCEPT ![r] = Dequeue(@, GammaId)], r, graph, GammaId,
                           call_gamma_api(Arg(r, GammaId), env, p))
    /\ UNCHANGED <<graph, rng, client, search, chat>>

\* the sleep inside _poll_for_completion is over: the loop goes round again
GammaResume(r) ==
    /\ exec[r].status = "Running"
    /\ \E s \in exec[r].sleeping, p \in PollEnv :
          /\ s.node = GammaId
          /\ exec' = ApplyOps([exec EXCEPT ![r].sleeping = @ \ {s}], r, graph, GammaId,
                             GammaPollFrom(s.number + 1, p))
    /\ UNCHANGED <<graph, rng, client, search, chat>>

\* variant: a partly filled fan-in group does not count as pending
QuiescentButFanIn(ex) ==
    /\ \A n \in DOMAIN ex.inbox : Len(ex.inbox[n]) = 0
    /\ ex.sleeping = {}

\* nothing pending or in flight, and no node yielded
Quiescent(ex) ==
    /\ \A n \in DOMAIN ex.inbox : Len(ex.inbox[n]) = 0 /\ Len(ex.acc[n]) = 0
    /\ ex.sleeping = {}

Halt(r) ==
    /\ exec[r].status = "Running"
    /\ Quiescent(exec[r])
    /\ exec' = [exec EXCEPT ![r] = Terminate(@, "Halted", graph.start, <<>>)]
    /\ UNCHANGED <<graph, rng, client, search, chat>>

\* variant: a cancellation request is honoured in any state
CancelAnyTime(r) ==
    /\ exec[r].status # "Pending"
    /\ exec' = [exec EXCEPT ![r] = Terminate(@, "Cancelled", graph.start, <<>>)]
    /\ UNCHANGED <<graph, rng, client, search, chat>>

\* the cancellation reaches every suspended invocation of the set S
RECURSIVE Unwind(_, _, _, _)
Unwind(E, r, g, S) ==
    IF S = {} THEN E
    ELSE LET s == CHOOSE x \in S : TRUE
         IN  Unwind(ApplyOps(E, r, g, s.node, OnCancel(s.node)), r, g, S \ {s})

\* the suspended invocations are signalled at their suspension point, then
\* the execution is Cancelled
Cancel(r) ==
    /\ exec[r].status = "Running"
    /\ exec' = [exec EXCEPT ![r] =
                   Terminate(Unwind(exec, r, graph, exec[r].sleeping)[r],
                             "Cancelled", graph.start, <<>>)]
    /\ UNCHANGED <<graph, rng, client, search, chat>>

(***************************************************************************)
(* Specifications                                                          *)
(***************************************************************************)
\* the steps of one execution that nobody cancels
Progress(r, inputs) ==
    \/ \E v \in inputs : Run(r, v)
    \/ CheckpointStep(r)
    \/ SplitterStep(r)
    \/ \E i \in 0..(graph.num_workers - 1) : WorkerStart(r, i)
    \/ \E i \in 0..(graph.num_workers - 1) : WorkerResume(r, i)
    \/ AggregatorStep(r)
    \/ ClassifyStep(r)
    \/ RespondStep(r)
    \/ Halt(r)

Step(r, inputs) == Progress(r, inputs) \/ Cancel(r)

\* one execution of a graph of width 0..MaxWorkers, or of the pipeline
Init ==
    /\ \/ \E n \in 0..MaxWorkers : graph = create_conditional_fan_out_workflow(n)
       \/ graph = create_workflow
    /\ rng \in 0..MaxSeed
    /\ exec = [r \in Runs |-> InitExec(graph)]
    /\ ToolsIdle

Next == Step(1, InputsFor(graph))

Spec == Init /\ [][Next]_vars

\* the same execution when nobody cancels it and every enabled step is
\* eventually taken: a started worker finishes its sleep, a dispatched node runs
NextLive == Progress(1, InputsFor(graph))

SpecLive == Init /\ [][NextLive]_vars /\ WF_vars(NextLive)

\* the graph of main's last test case (5 workers), run with input 5 or 12
StepA(r) ==
    \/ \E v \in {TestInputA, TestInputB} : Run(r, v)
    \/ CheckpointStep(r)
    \/ SplitterStep(r)
    \/ \E i \in 0..(graph.num_workers - 1) : WorkerStart(r, i)
    \/ \E i \in 0..(graph.num_workers - 1) : WorkerResume(r, i)
    \/ AggregatorStep(r)
    \/ Halt(r)

InitA ==
    /\ graph = create_conditional_fan_out_workflow(TestInputA)
    /\ rng \in {0, MaxSeed}
    /\ exec = [r \in Runs |-> InitExec(graph)]
    /\ ToolsIdle

NextA == StepA(1)

SpecA == InitA /\ [][NextA]_vars

\* every way the builder is used in src/workflow, and the same uses with
\* set_start_executor left out or with an edge to a node that was not added
Builders ==
    LET good == {conditional_fan_out_builder(n) : n \in 0..MaxWorkers}
                    \cup {agent_workflow_builder}
    IN  good \cup {BuilderNoStart(b) : b \in good} \cup {BuilderDangling(b) : b \in good}

InitB ==
    /\ \E b \in Builders : graph = build(b)
    /\ rng \in 0..MaxSeed
    /\ exec = [r \in Runs |-> InitExec(graph)]
    /\ ToolsIdle

NextB == Step(1, InputsFor(graph))

SpecB == InitB /\ [][NextB]_vars

\* an execution in which the aggregator yields while workers are in flight
StepY(r) ==
    \/ \E v \in {TestInputA, TestInputC, TestInputB} : Run(r, v)
    \/ CheckpointStep(r)
    \/ SplitterStep(r)
    \/ \E i \in 0..(graph.num_workers - 1) : WorkerStart(r, i)
    \/ \E i \in 0..(graph.num_workers - 1) : WorkerResume(r, i)
    \/ \E i \in 0..(graph.num_workers - 1) : WorkerOutlive(r, i)
    \/ AggregatorStep(r)
    \/ Halt(r)

InitY ==
    /\ \E n \in 2..(MaxWorkers + 1) : graph = early_yield_workflow(n)
    /\ rng \in 0..MaxSeed
    /\ exec = [r \in Runs |-> InitExec(graph)]
    /\ ToolsIdle

NextY == StepY(1)

SpecY == InitY /\ [][NextY]_vars

\* executions of the fan-out graph and of the graph with a member that never
\* delivers
StepP(r) ==
    \/ \E v \in {TestInputA, TestInputC, TestInputB} : Run(r, v)
    \/ CheckpointStep(r)
    \/ SplitterStep(r)
    \/ \E i \in 0..(graph.num_workers - 1) : WorkerStart(r, i)
    \/ \E i \in 0..(graph.num_workers - 1) : WorkerResume(r, i)
    \/ AggregatorStep(r)
    \/ Halt(r)
    \/ Cancel(r)

InitP ==
    /\ \E n \in 1..MaxWorkers :
          \/ graph = create_conditional_fan_out_workflow(n)
          \/ graph = stalled_member_workflow(n + 1)
    /\ rng \in 0..MaxSeed
    /\ exec = [r \in Runs |-> InitExec(graph)]
    /\ ToolsIdle

NextP == StepP(1)

SpecP == InitP /\ [][NextP]_vars

\* executions of the graph in which the first worker delivers twice
StepD(r) ==
    \/ \E v \in {TestInputA, TestInputC, TestInputB} : Run(r, v)
    \/ CheckpointStep(r)
    \/ SplitterStep(r)
    \/ \E i \in 0..(graph.num_workers - 1) : WorkerStart(r, i)
    \/ \E i \in 0..(graph.num_workers - 1) : WorkerResume(r, i)
    \/ AggregatorStep(r)
    \/ Halt(r)

InitD ==
    /\ \E n \in 1..MaxWorkers : graph = double_dispatch_workflow(n)
    /\ rng \in 0..MaxSeed
    /\ exec = [r \in Runs |-> InitExec(graph)]
    /\ ToolsIdle

NextD == StepD(1)

SpecD == InitD /\ [][NextD]_vars

\* the presentation workflow; no state of it is quiescent while Running, so
\* the engine's halting step has no part in it
StepG(r) ==
    \/ \E v \in Messages : Run(r, v)
    \/ OutlineStep(r)
    \/ ResearchStep(r)
    \/ GammaStart(r)
    \/ GammaResume(r)
    \/ Cancel(r)

InitG ==
    /\ graph = create_presentation_workflow
    /\ rng \in {0, MaxSeed}
    /\ exec = [r \in Runs |-> InitExec(graph)]
    /\ ToolsIdle

NextG == StepG(1)

SpecG == InitG /\ [][NextG]_vars

\* one execution of any workflow of the repository, cancellable at any moment
InitC ==
    /\ \/ \E n \in 1..MaxWorkers : graph = create_conditional_fan_out_workflow(n)
       \/ graph = create_workflow
       \/ graph = create_presentation_workflow
    /\ rng \in 0..MaxSeed
    /\ exec = [r \in Runs |-> InitExec(graph)]
    /\ ToolsIdle

NextC ==
    \/ Step(1, InputsFor(graph))
    \/ OutlineStep(1)
    \/ ResearchStep(1)
    \/ GammaStart(1)
    \/ GammaResume(1)

SpecC == InitC /\ [][NextC]_vars

\* one built graph run twice, the two executions interleaved in any way
Init2 ==
    /\ \/ \E n \in ReuseWidths : graph = create_conditional_fan_out_workflow(n)
       \/ graph = create_workflow
    /\ rng \in {0, MaxSeed}
    /\ exec = [r \in Runs |-> InitExec(graph)]
    /\ ToolsIdle

Next2 == \E r \in Runs : Step(r, ReuseInputs(graph, r))

Spec2 == Init2 /\ [][Next2]_vars

(***************************************************************************)
(* GammaAPIClient and generate_presentation_from_content                   *)
(***************************************************************************)
\* what one call finds outside the program: the debug file can be written,
\* GAMMA_API_KEY and GAMMA_API_BASE_URL are non-empty
ClientEnv == [file_ok : BOOLEAN, api_key : BOOLEAN, api_base_url : BOOLEAN]
\* seconds one HTTP request may take (at most request_timeout)
RequestTimes == {0, 3}

\* exception classes that an "except Exception" clause catches
IsException(e) == e \notin {"KeyboardInterrupt", "CancelledError"}

ClientLog(c, call, outcome) ==
    [c EXCEPT !.log = Append(@, [call |-> call, outcome |-> outcome, at |-> c.now])]

\* an exception leaves create_presentation
ClientRaise(c, e) == [c EXCEPT !.pc = "done", !.raised = <<e>>]

\* GammaAPIClient.__init__: the name of the exception it raises, or "ok"
GammaAPIClient_init(env) ==
    IF ~env.api_key THEN "ValueError"
    ELSE IF ~env.api_base_url THEN "ValueError"
    ELSE "ok"

\* _post_generation: a RequestException, a status other than 200/201 and a
\* body without an id all become ValueError; otherwise polling starts
client_post_generation(c, o) ==
    LET c1 == ClientLog(c, "POST", o) IN
    IF o = "ok" THEN [c1 EXCEPT !.pc = "poll", !.start = c1.now]
    ELSE ClientRaise(c1, "ValueError")

\* the poll loop reads every 200 body as the completed data
client_poll_any_200(c, o, d, url) ==
    IF ~(c.now - c.start < MaxWait) THEN ClientRaise(c, "TimeoutError")
    ELSE LET c1 == [ClientLog(c, "GET", o) EXCEPT !.now = @ + d] IN
         IF o \in {"completed", "pending"}
         THEN LET data == [status |-> o, exportUrl |-> url]
                  c2 == [c1 EXCEPT !.polled = <<data>>]
              IN  IF ~url THEN ClientRaise(c2, "ValueError")
                  ELSE [c2 EXCEPT !.pc = "download"]
         ELSE [c1 EXCEPT !.pc = "sleep"]

\* the poll loop without its except clause: a RequestException leaves it
client_poll_no_retry(c, o, d, url) ==
    IF ~(c.now - c.start < MaxWait) THEN ClientRaise(c, "TimeoutError")
    ELSE LET c1 == [ClientLog(c, "GET", o) EXCEPT !.now = @ + d] IN
         IF o = "raise" THEN ClientRaise(c1, "RequestException")
         ELSE IF o = "completed"
         THEN LET data == [status |-> "completed", exportUrl |-> url]
                  c2 == [c1 EXCEPT !.polled = <<data>>]
              IN  IF ~url THEN ClientRaise(c2, "ValueError")
                  ELSE [c2 EXCEPT !.pc = "download"]
         ELSE [c1 EXCEPT !.pc = "sleep"]

\* the poll loop going on to the download whatever exportUrl holds
client_poll_no_url_check(c, o, d, url) ==
    IF ~(c.now - c.start < MaxWait) THEN ClientRaise(c, "TimeoutError")
    ELSE LET c1 == [ClientLog(c, "GET", o) EXCEPT !.now = @ + d] IN
         IF o = "raise" THEN [c1 EXCEPT !.pc = "sleep"]
         ELSE IF o = "completed"
         THEN [c1 EXCEPT !.polled = <<[status |-> "completed", exportUrl |-> url]>>,
                         !.pc = "download"]
         ELSE [c1 EXCEPT !.pc = "sleep"]

\* one turn of _poll_for_completion's loop, from the test of the elapsed
\* time to the sleep, and on a completed poll the exportUrl test of
\* create_presentation that follows the return
client_poll_for_completion(c, o, d, url) ==
    IF ~(c.now - c.start < MaxWait) THEN ClientRaise(c, "TimeoutError")
    ELSE LET c1 == [ClientLog(c, "GET", o) EXCEPT !.now = @ + d] IN
         IF o = "raise" THEN [c1 EXCEPT !.pc = "sleep"]
         ELSE IF o = "completed"
         THEN LET data == [status |-> "completed", exportUrl |-> url]
                  c2 == [c1 EXCEPT !.polled = <<data>>]
              IN  IF ~url THEN ClientRaise(c2, "ValueError")
                  ELSE [c2 EXCEPT !.pc = "download"]
         ELSE [c1 EXCEPT !.pc = "sleep"]

\* await asyncio.sleep(self.poll_interval), then the loop test again
client_sleep(c) ==
    [ClientLog(c, "sleep", "ok") EXCEPT !.now = @ + poll_interval, !.pc = "poll"]

\* the download with every failure turned into the ValueError of the POST
client_download_pdf_value_error(c, o, file_ok) ==
    LET c1 == ClientLog(c, "download", o) IN
    IF o # "ok" \/ ~file_ok THEN ClientRaise(c1, "ValueError")
    ELSE [c1 EXCEPT !.pc = "done",
             !.returned = <<[generation_id |-> "id", pdf_url |-> "url",
                             pdf_path |-> "path", completed_data |-> c1.polled[1]]>>]

\* _download_pdf and the return of create_presentation: a RequestException
\* and a status other than 200 become RuntimeError, a file that cannot be
\* written raises OSError
client_download_pdf(c, o, file_ok) ==
    LET c1 == ClientLog(c, "download", o) IN
    IF o # "ok" THEN ClientRaise(c1, "RuntimeError")
    ELSE IF ~file_ok THEN ClientRaise(ClientLog(c1, "open", "raise"), "OSError")
    ELSE [c1 EXCEPT !.pc = "done",
             !.returned = <<[generation_id |-> "id", pdf_url |-> "url",
                             pdf_path |-> "path", completed_data |-> c1.polled[1]]>>]

\* generate_presentation_from_content catching only ValueError
generate_result_value_error_only(c) ==
    IF c.pc # "done" \/ c.result # <<>> THEN c
    ELSE IF c.returned # <<>>
    THEN [c EXCEPT !.result = <<[success |-> TRUE,
                                 generation_id |-> c.returned[1].generation_id,
                                 pdf_url |-> c.returned[1].pdf_url,
                                 pdf_path |-> c.returned[1].pdf_path]>>]
    ELSE IF c.raised[1] = "ValueError"
    THEN [c EXCEPT !.result = <<[success |-> FALSE, error |-> c.raised[1]]>>]
    ELSE c

\* the end of generate_presentation_from_content: the success dict built from
\* create_presentation's return, or the failure dict of "except Exception"
generate_result(c) ==
    IF c.pc # "done" \/ c.result # <<>> THEN c
    ELSE IF c.returned # <<>>
    THEN [c EXCEPT !.result = <<[success |-> TRUE,
                                 generation_id |-> c.returned[1].generation_id,
                                 pdf_url |-> c.returned[1].pdf_url,
                                 pdf_path |-> c.returned[1].pdf_path]>>]
    ELSE IF IsException(c.raised[1])
    THEN [c EXCEPT !.result = <<[success |-> FALSE, error |-> c.raised[1]]>>]
    ELSE c

\* the start of generate_presentation_from_content: the debug file, the
\* client's construction, the call of create_presentation
generate_presentation_from_content(env) ==
    LET c == InitClient IN
    IF ~env.file_ok
    THEN generate_result(ClientRaise(ClientLog(c, "open", "raise"), "OSError"))
    ELSE LET c1 == ClientLog(c, "open", "ok") IN
         IF GammaAPIClient_init(env) # "ok"
         THEN generate_result(ClientRaise(ClientLog(c1, "GammaAPIClient", "raise"),
                                          GammaAPIClient_init(env)))
         ELSE [ClientLog(c1, "GammaAPIClient", "ok") EXCEPT !.pc = "post"]

GenerateCall ==
    /\ client.pc = "idle"
    /\ \E env \in ClientEnv : client' = generate_presentation_from_content(env)
    /\ UNCHANGED <<graph, rng, exec, search, chat>>

ClientPost ==
    /\ client.pc = "post"
    /\ \E o \in PostOutcomes : client' = generate_result(client_post_generation(client, o))
    /\ UNCHANGED <<graph, rng, exec, search, chat>>

ClientPoll ==
    /\ client.pc = "poll"
    /\ \E o \in GetOutcomes, d \in RequestTimes, url \in BOOLEAN :
          client' = generate_result(client_poll_for_completion(client, o, d, url))
    /\ UNCHANGED <<graph, rng, exec, search, chat>>

ClientWake ==
    /\ client.pc = "sleep"
    /\ client' = client_sleep(client)
    /\ UNCHANGED <<graph, rng, exec, search, chat>>

ClientDownload ==
    /\ client.pc = "download"
    /\ \E o \in DownloadOutcomes, file_ok \in BOOLEAN :
          client' = generate_result(client_download_pdf(client, o, file_ok))
    /\ UNCHANGED <<graph, rng, exec, search, chat>>

ClientStep == ClientPost \/ ClientPoll \/ ClientWake \/ ClientDownload

\* one call of generate_presentation_from_content, in any environment
InitK ==
    /\ graph = create_presentation_workflow
    /\ rng = 0
    /\ exec = [r \in Runs |-> InitExec(graph)]
    /\ ToolsIdle

NextK ==
    \/ GenerateCall
    \/ ClientPost
    \/ ClientPoll
    \/ ClientWake
    \/ ClientDownload

SpecK == InitK /\ [][NextK]_vars

\* the same call when the event loop keeps running it: a due sleep ends and
\* a request gets its answer or its timeout
SpecKLive == InitK /\ [][NextK]_vars /\ WF_vars(NextK)

(***************************************************************************)
(* search_web                                                              *)
(***************************************************************************)
Queries == {"q1", "q2"}
QueryLists == UNION {[1..n -> Queries] : n \in 0..MaxQueries}
\* what one Tavily search ends with: hits, no hits, an exception
SearchOutcomes == {"hits", "no_hits", "raise"}

\* _search_single_query's return value
_search_single_query(query, o) ==
    IF o = "raise"
    THEN [query |-> query, results |-> <<>>, error |-> "Error searching"]
    ELSE [query |-> query,
          results |-> IF o = "hits" THEN <<"hit">> ELSE <<>>,
          error |-> "None"]

\* d[k] = v on a dict
SetItem(d, k, v) == [x \in DOMAIN d \cup {k} |-> IF x = k THEN v ELSE d[x]]

\* the aggregation loop over the first n results: <<aggregated, errors>>
RECURSIVE Aggregate(_, _)
Aggregate(search_results, n) ==
    IF n = 0 THEN <<<<>>, <<>>>>
    ELSE LET prev == Aggregate(search_results, n - 1)
             result == search_results[n]
         IN  IF result.error # "None"
             THEN <<SetItem(prev[1], result.query, <<>>),
                    SetItem(prev[2], result.query, result.error)>>
             ELSE <<SetItem(prev[1], result.query, result.results), prev[2]>>

\* the output built after the gather
SearchOutput(search_results) ==
    LET a == Aggregate(search_results, Len(search_results)) IN
    IF a[2] # <<>> THEN [results |-> a[1], errors |-> a[2]]
    ELSE [results |-> a[1]]

\* search_web up to the gather: the empty list is answered at once
search_web(queries) ==
    IF queries = <<>>
    THEN [pc |-> "done", queries |-> queries, tasks |-> <<>>,
          output |-> <<[error |-> "No queries provided"]>>]
    ELSE [pc |-> "gather", queries |-> queries,
          tasks |-> [i \in 1..Len(queries) |-> [state |-> "pending", result |-> <<>>]],
          output |-> <<>>]

SearchCall ==
    /\ search.pc = "idle"
    /\ \E queries \in QueryLists : search' = search_web(queries)
    /\ UNCHANGED <<graph, rng, exec, client, chat>>

\* asyncio.gather schedules the tasks in list order; none waits for another
CanStart(i) ==
    /\ search.tasks[i].state = "pending"
    /\ \A j \in 1..(i - 1) : search.tasks[j].state # "pending"

\* a task runs up to its await of tavily_client.search
SearchStart(i) ==
    /\ search.pc = "gather"
    /\ i \in 1..Len(search.tasks)
    /\ CanStart(i)
    /\ search' = [search EXCEPT !.tasks[i].state = "searching"]
    /\ UNCHANGED <<graph, rng, exec, client, chat>>

\* an exception of one search reaches the gather and ends search_web
SearchCompleteUncaught(i, o) ==
    IF o = "raise"
    THEN [search EXCEPT !.pc = "done", !.tasks[i].state = "done"]
    ELSE [search EXCEPT !.tasks[i].state = "done",
                        !.tasks[i].result = <<_search_single_query(search.queries[i], o)>>]

\* a task's search ends and the task returns its dict
SearchCompleteTask(i, o) ==
    [search EXCEPT !.tasks[i].state = "done",
                   !.tasks[i].result = <<_search_single_query(search.queries[i], o)>>]

SearchComplete(i) ==
    /\ search.pc = "gather"
    /\ i \in 1..Len(search.tasks)
    /\ search.tasks[i].state = "searching"
    /\ \E o \in SearchOutcomes : search' = SearchCompleteTask(i, o)
    /\ UNCHANGED <<graph, rng, exec, client, chat>>

\* the gather returns once every task has: aggregation and json.dumps
SearchReturn ==
    /\ search.pc = "gather"
    /\ \A i \in 1..Len(search.tasks) : search.tasks[i].state = "done"
    /\ search' = [search EXCEPT
           !.pc = "done",
           !.output = <<SearchOutput([i \in 1..Len(search.tasks) |->
                                         search.tasks[i].result[1]])>>]
    /\ UNCHANGED <<graph, rng, exec, client, chat>>

\* one call of search_web with any list of up to MaxQueries queries
InitS ==
    /\ graph = create_presentation_workflow
    /\ rng = 0
    /\ exec = [r \in Runs |-> InitExec(graph)]
    /\ ToolsIdle

NextS ==
    \/ SearchCall
    \/ \E i \in 1..MaxQueries : SearchStart(i)
    \/ \E i \in 1..MaxQueries : SearchComplete(i)
    \/ SearchReturn

SpecS == InitS /\ [][NextS]_vars

(***************************************************************************)
(* presentation_agents.main: the chat loop                                 *)
(***************************************************************************)
\* what input() gives: a line, maybe padded with blanks, or EOFError
Lines == [pad : BOOLEAN, text : {"/exit", "/EXIT", "/exit now", "", "topic"}]
\* what the orchestrator's stream adds up to, or the exception it raises
ResponseKinds == {"empty", "blank", "invalid", "wrong_shape", "valid", "raise"}
SlideCounts == {-1, 0, 1}
Responses == [kind : ResponseKinds, number_of_slides : SlideCounts]

\* str.strip and str.lower on the lines above
strip(l) == l.text
lower(t) == IF t = "/EXIT" THEN "/exit" ELSE t
\* orchestrator_response_text.strip() is non-empty
HasText(resp) == resp.kind \notin {"empty", "blank"}

\* OrchestratorOutput.model_validate_json: "ok" or the exception it raises
model_validate_json(resp) ==
    IF resp.kind = "valid" THEN "ok" ELSE "ValidationError"

AtPrompt(ch, last) ==
    [ch EXCEPT !.pc = "prompt", !.line = <<>>, !.response = <<>>, !.last = last]
Ended(ch, by) == [ch EXCEPT !.pc = "ended", !.ended_by = by]

\* the except clauses around a turn: Exception goes on with the next prompt,
\* KeyboardInterrupt breaks the loop, anything else leaves main
main_except(ch, e) ==
    IF IsException(e) THEN AtPrompt(ch, "error")
    ELSE Ended(ch, e)

\* generation started whatever number_of_slides is
main_parse_any_count(ch, resp) ==
    IF ~HasText(resp) THEN AtPrompt(ch, "no_response")
    ELSE IF model_validate_json(resp) # "ok"
    THEN main_except(ch, model_validate_json(resp))
    ELSE [ch EXCEPT !.pc = "generating", !.response = <<resp>>]

\* the turn after the stream: the text test, the parse, the slide count
main_parse(ch, resp) ==
    IF ~HasText(resp) THEN AtPrompt(ch, "no_response")
    ELSE IF model_validate_json(resp) # "ok"
    THEN main_except(ch, model_validate_json(resp))
    ELSE IF resp.number_of_slides <= 0 THEN AtPrompt(ch, "invalid_slides")
    ELSE [ch EXCEPT !.pc = "generating", !.response = <<resp>>]

\* input(), the '/exit' test and the empty-line test
ChatInput ==
    /\ chat.pc = "prompt"
    /\ \/ chat' = main_except(chat, "EOFError")
       \/ \E l \in Lines :
             LET user_input == strip(l) IN
             chat' = IF lower(user_input) = "/exit" THEN Ended(chat, "/exit")
                     ELSE IF user_input = "" THEN AtPrompt(chat, "empty_input")
                     ELSE [chat EXCEPT !.pc = "streaming", !.line = <<l>>]
    /\ UNCHANGED <<graph, rng, exec, client, search>>

\* the orchestrator's stream ends; the turn goes on to the parse and, with a
\* usable output, into generate_presentation_from_content
ChatStream ==
    /\ chat.pc = "streaming"
    /\ \E resp \in Responses, env \in ClientEnv :
          /\ chat' = IF resp.kind = "raise" THEN main_except(chat, "Exception")
                     ELSE main_parse(chat, resp)
          /\ client' = IF chat'.pc = "generating"
                       THEN generate_presentation_from_content(env)
                       ELSE client
    /\ UNCHANGED <<graph, rng, exec, search>>

\* generate_presentation_from_content is over: its dict is printed, or the
\* exception it let through reaches the except clauses
ChatReport ==
    /\ chat.pc = "generating"
    /\ client.pc = "done"
    /\ chat' = IF client.result # <<>>
               THEN AtPrompt(chat, IF client.result[1].success
                                   THEN "generated" ELSE "failed")
               ELSE main_except(chat, client.raised[1])
    /\ client' = InitClient
    /\ UNCHANGED <<graph, rng, exec, search>>

\* Ctrl-C while the loop waits for input, for the stream or for Gamma
ChatInterrupt ==
    /\ chat.pc # "ended"
    /\ chat' = main_except(chat, "KeyboardInterrupt")
    /\ client' = IF chat.pc = "generating" /\ client.pc # "done"
                 THEN ClientRaise(client, "KeyboardInterrupt")
                 ELSE client
    /\ UNCHANGED <<graph, rng, exec, search>>

\* a chat session with any inputs, any orchestrator answers, any Gamma answers
InitM ==
    /\ graph = create_presentation_workflow
    /\ rng = 0
    /\ exec = [r \in Runs |-> InitExec(graph)]
    /\ ToolsIdle

NextM ==
    \/ ChatInput
    \/ ChatStream
    \/ ClientPost
    \/ ClientPoll
    \/ ClientWake
    \/ ClientDownload
    \/ ChatReport
    \/ ChatInterrupt

SpecM == InitM /\ [][NextM]_vars

(***************************************************************************)
(* Observations used by the properties                                     *)
(***************************************************************************)
IsFanOut == graph.kind = "fanout"
IsPipeline == graph.kind = "pipeline"
Started(r) == exec[r].status # "Pending"
\* the execution ran to its end: not cancelled, not failed
Finished(r) == exec[r].status \in {"Completed", "Halted"}
InputOf(r) == exec[r].input[1]
DeclaredWorkers == SeqRange(WorkerIds(graph.num_workers))
NodesOfKind(k) == {n \in graph.nodes : n[1] = k}

RECURSIVE SumCalls(_, _)
SumCalls(r, S) ==
    IF S = {} THEN 0
    ELSE LET n == CHOOSE m \in S : TRUE
         IN  Len(exec[r].calls[n]) + SumCalls(r, S \ {n})

Invocations(r, k) == SumCalls(r, NodesOfKind(k))
CountEvents(r, tag) ==
    Cardinality({i \in 1..Len(exec[r].events) : exec[r].events[i].tag = tag})
\* every sequence handed to the aggregator, dispatched or already consumed
Handed(r) == exec[r].calls[AggregatorId] \o exec[r].inbox[AggregatorId]

C2_Barrier ==
    \A r \in Runs :
        (IsFanOut /\ Len(Handed(r)) > 0) =>
            /\ Len(Handed(r)) = 1
            /\ \A w \in DeclaredWorkers :
                  /\ w \in exec[r].delivered[AggregatorId]
                  /\ \E i \in 1..Len(exec[r].events) :
                        exec[r].events[i].tag = "completed" /\ exec[r].events[i].node = w

\* the barrier is holding a delivered result back while another worker runs
C2_Witness ==
    /\ IsFanOut /\ graph.num_workers >= 2
    /\ Cardinality(exec[1].delivered[AggregatorId]) = 1
    /\ Len(exec[1].acc[AggregatorId]) = 1
    /\ Len(Handed(1)) = 0

(***************************************************************************)
(* C3                                                                      *)
(***************************************************************************)
\* C3: whatever the order of the workers' completions, the sequence handed to
\* the aggregator holds the result of each declared worker exactly once and
\* nothing else.
C3_EachResultOnce ==
    \A r \in Runs :
        IsFanOut =>
            \A k \in 1..Len(Handed(r)) :
                LET rs == Handed(r)[k] IN
                /\ Len(rs) = graph.num_workers
                /\ \A w \in DeclaredWorkers :
                      Cardinality({i \in 1..Len(rs) : rs[i].worker_id = w}) = 1

\* the results arrived against the declaration order
C3_Witness ==
    /\ IsFanOut /\ graph.num_workers >= 2
    /\ Len(exec[1].calls[AggregatorId]) = 1
    /\ exec[1].calls[AggregatorId][1][1].worker_id = WorkerId(1)
    /\ exec[1].calls[AggregatorId][1][2].worker_id = WorkerId(0)

(***************************************************************************)
(* C4                                                                      *)
(***************************************************************************)
\* C4: an input n <= 10 gets the splitter invoked exactly once; an input
\* n > 10 gets no splitter, worker or aggregator invocation, and the execution
\* ends Halted with no output.
C4_ConditionalEdge ==
    \A r \in Runs :
        (IsFanOut /\ Started(r)) =>
            /\ InputOf(r) <= Threshold =>
                  /\ Len(exec[r].calls[SplitterId]) <= 1
                  /\ Finished(r) => Len(exec[r].calls[SplitterId]) = 1
            /\ InputOf(r) > Threshold =>
                  /\ Invocations(r, "splitter") = 0
                  /\ Invocations(r, "worker") = 0
                  /\ Invocations(r, "aggregator") = 0
                  /\ exec[r].output = <<>>
                  /\ exec[r].status # "Completed"
                  /\ Finished(r) =>
                        /\ exec[r].status = "Halted"
                        /\ exec[r].events[Len(exec[r].events)].tag = "Halted"
                        /\ exec[r].events[Len(exec[r].events)].data = <<>>

C4_Witness ==
    /\ IsFanOut
    /\ exec[1].status = "Halted"
    /\ InputOf(1) = TestInputB
    /\ Len(exec[1].calls[CheckpointId]) = 1

(***************************************************************************)
(* C5                                                                      *)
(***************************************************************************)
OutputEvents(r) ==
    {i \in 1..Len(exec[r].events) : exec[r].events[i].tag = "Completed"}

\* C5: the stream never holds more than one output event; the execution is
\* Completed exactly when it holds one, which then carries the terminal output;
\* the invocation of a yielding node (aggregator, response agent) completes the
\* execution with the value it yields; once Completed, no step changes the
\* output, the state or the stream.
C5_SingleOutput_Inv ==
    \A r \in Runs :
        /\ Cardinality(OutputEvents(r)) <= 1
        /\ exec[r].status = "Completed" <=> Cardinality(OutputEvents(r)) = 1
        /\ exec[r].status # "Completed" => exec[r].output = <<>>
        /\ exec[r].status = "Completed" =>
              /\ Len(exec[r].output) = 1
              /\ exec[r].events[Len(exec[r].events)].data = exec[r].output
        /\ (IsFanOut /\ Len(exec[r].calls[AggregatorId]) > 0) =>
              /\ exec[r].status = "Completed"
              /\ exec[r].output[1] = FinalOutput(exec[r].calls[AggregatorId][1])
        /\ (IsPipeline /\ Len(exec[r].calls[RespondId]) > 0) =>
              /\ exec[r].status = "Completed"
              /\ exec[r].output[1] = RespondOutput(exec[r].calls[RespondId][1])

TerminalEvents(r) ==
    {i \in 1..Len(exec[r].events) : exec[r].events[i].tag \in TerminalStates}

\* C6: an execution in a terminal state never changes again, and the stream of
\* a terminal execution ends with the one event of that state, which carries
\* the output; a running execution has no terminal event in its stream.
C6_TerminalSticky ==
    /\ [][\A r \in Runs :
             exec[r].status \in TerminalStates => exec'[r] = exec[r]]_vars
    /\ [](\A r \in Runs :
             /\ exec[r].status \in TerminalStates =>
                   /\ TerminalEvents(r) = {Len(exec[r].events)}
                   /\ exec[r].events[Len(exec[r].events)].tag = exec[r].status
                   /\ exec[r].events[Len(exec[r].events)].data = exec[r].output
             /\ exec[r].status \notin TerminalStates => TerminalEvents(r) = {})

\* cancelled with workers in flight, their earlier events still in the stream
C6_Witness ==
    /\ IsFanOut
    /\ exec[1].status = "Cancelled"
    /\ CountEvents(1, "started") >= 1
    /\ exec[1].events[Len(exec[1].events)].tag = "Cancelled"

(***************************************************************************)
(* C7                                                                      *)
(***************************************************************************)
ResultsOf(r) ==
    {exec[r].acc[AggregatorId][i] : i \in 1..Len(exec[r].acc[AggregatorId])}
    \cup UNION {SeqRange(Handed(r)[k]) : k \in 1..Len(Handed(r))}

\* C7: with one graph run twice on different inputs, in any interleaving,
\* every event, worker result, accumulator entry and output of a run stems
\* from that run's own input, a run that has not started holds nothing, and
\* each run ends as it would alone: Completed with the summary of its own
\* results when its input passes (N >= 1), Halted otherwise.
C7_Isolation ==
    \A r \in Runs :
        /\ ~Started(r) => exec[r] = InitExec(graph)
        /\ (IsFanOut /\ Started(r)) =>
              /\ \A i \in 1..Len(exec[r].events) :
                    exec[r].events[i].tag \in {"checkpoint", "split", "started"}
                        => exec[r].events[i].data = <<InputOf(r)>>
              /\ \A res \in ResultsOf(r) : res.input_value = InputOf(r)
              /\ CountEvents(r, "started") <= graph.num_workers
              /\ CountEvents(r, "completed") <= graph.num_workers
              /\ Cardinality(exec[r].delivered[AggregatorId]) = CountEvents(r, "completed")
              /\ exec[r].status = "Completed" =>
                    /\ InputOf(r) <= Threshold /\ graph.num_workers >= 1
                    /\ exec[r].output = <<FinalOutput(exec[r].calls[AggregatorId][1])>>
                    /\ Len(exec[r].calls[AggregatorId][1]) = graph.num_workers
              /\ exec[r].status = "Halted" =>
                    InputOf(r) > Threshold \/ graph.num_workers = 0
              /\ exec[r].status # "Failed"
        /\ (IsPipeline /\ Started(r)) =>
              /\ exec[r].status = "Completed" =>
                    exec[r].output = <<RespondOutput(ClassifyOutput(InputOf(r)))>>
              /\ exec[r].status \notin {"Halted", "Failed"}

\* both runs are in the middle of their fan-in at the same time
C7_Witness ==
    /\ IsFanOut /\ graph.num_workers >= 2
    /\ Started(1) /\ Started(2)
    /\ InputOf(1) # InputOf(2)
    /\ Len(exec[1].acc[AggregatorId]) = 1
    /\ Len(exec[2].acc[AggregatorId]) = 1

(***************************************************************************)
(* C8                                                                      *)
(***************************************************************************)
RECURSIVE SumCompleted(_, _)
\* sum of the output values announced by the first k events' completed events
SumCompleted(r, k) ==
    IF k = 0 THEN 0
    ELSE (IF exec[r].events[k].tag = "completed" THEN exec[r].events[k].data[1] ELSE 0)
         + SumCompleted(r, k - 1)

ResultLines(out) == {i \in 1..Len(out) : out[i].kind = "result"}
TotalLines(out) == {i \in 1..Len(out) : out[i].kind = "total"}

\* C8: the 5-worker graph run with input 5 never halts and ends only in
\* Completed, then with 5 started events, 5 completed events, 1 aggregating
\* event, and an output of 5 result lines and one total line whose value is
\* the sum of the 5 workers' output values.
C8_ScenarioA ==
    \A r \in Runs :
        (IsFanOut /\ Started(r) /\ InputOf(r) = TestInputA) =>
            /\ CountEvents(r, "started") <= TestInputA
            /\ CountEvents(r, "completed") <= CountEvents(r, "started")
            /\ CountEvents(r, "aggregating") <= 1
            /\ exec[r].status = "Running" => ~Quiescent(exec[r])
            /\ exec[r].status \in TerminalStates =>
                  /\ exec[r].status = "Completed"
                  /\ CountEvents(r, "started") = TestInputA
                  /\ CountEvents(r, "completed") = TestInputA
                  /\ CountEvents(r, "aggregating") = 1
                  /\ LET out == exec[r].output[1] IN
                        /\ Cardinality(ResultLines(out)) = TestInputA
                        /\ Cardinality(TotalLines(out)) = 1
                        /\ \A i \in TotalLines(out) :
                              out[i].output_value = SumCompleted(r, Len(exec[r].events))

C8_Witness ==
    /\ graph.num_workers = TestInputA
    /\ exec[1].status = "Completed"
    /\ InputOf(1) = TestInputA
    /\ Cardinality(ResultLines(exec[1].output[1])) = TestInputA
    /\ CountEvents(1, "completed") = TestInputA

(***************************************************************************)
(* C9                                                                      *)
(***************************************************************************)
\* C9: the same graph run with input 12 has at most one checkpoint event and
\* never a splitter, worker or aggregator event or an output event, and it ends
\* only in Halted, with exactly one checkpoint event and no output.
C9_ScenarioB ==
    \A r \in Runs :
        (IsFanOut /\ Started(r) /\ InputOf(r) = TestInputB) =>
            /\ CountEvents(r, "checkpoint") <= 1
            /\ \A t \in {"split", "started", "completed", "aggregating", "aggregated",
                         "Completed"} : CountEvents(r, t) = 0
            /\ exec[r].output = <<>>
            /\ exec[r].status \in TerminalStates =>
                  /\ exec[r].status = "Halted"
                  /\ CountEvents(r, "checkpoint") = 1

C9_Witness ==
    /\ graph.num_workers = TestInputA
    /\ exec[1].status = "Halted"
    /\ InputOf(1) = TestInputB
    /\ CountEvents(1, "checkpoint") = 1
    /\ Len(exec[1].events) = 2

(***************************************************************************)
(* C10                                                                     *)
(***************************************************************************)
\* C10: in the pipeline each of the two nodes is invoked at most once, Respond
\* only with Classify's output; a finished execution is Completed after exactly
\* two invocations, Classify on the input and Respond on Classify's output, and
\* its terminal output is the value Respond yielded.
C10_Pipeline ==
    \A r \in Runs :
        (IsPipeline /\ Started(r)) =>
            /\ Len(exec[r].calls[ClassifyId]) <= 1
            /\ Len(exec[r].calls[RespondId]) <= 1
            /\ \A k \in 1..Len(exec[r].calls[RespondId] \o exec[r].inbox[RespondId]) :
                  /\ (exec[r].calls[RespondId] \o exec[r].inbox[RespondId])[k]
                        = ClassifyOutput(InputOf(r))
                  /\ exec[r].calls[ClassifyId] = <<InputOf(r)>>
            /\ Finished(r) =>
                  /\ exec[r].status = "Completed"
                  /\ exec[r].calls[ClassifyId] = <<InputOf(r)>>
                  /\ exec[r].calls[RespondId] = <<ClassifyOutput(InputOf(r))>>
                  /\ SumCalls(r, graph.nodes) = 2
                  /\ exec[r].output = <<RespondOutput(ClassifyOutput(InputOf(r)))>>
                  /\ exec[r].events[Len(exec[r].events)].node = RespondId

C10_Witness ==
    /\ IsPipeline
    /\ exec[1].status = "Completed"
    /\ Len(exec[1].calls[ClassifyId]) = 1
    /\ Len(exec[1].calls[RespondId]) = 1

ErrorEvents(r) == {i \in 1..Len(exec[r].events) : exec[r].events[i].tag = "error"}

\* C12: when call_gamma_api is given text that does not parse to a JSON
\* object (or cannot write its debug file) the exception leaves the handler
\* and the execution is Failed; a Failed execution has exactly one error event,
\* carrying the id of the node that raised and the cause, directly followed by
\* the terminal event; it has no output and no output event, nothing is
\* dispatched or suspended, and no later step changes it.
C12_UnhandledFault ==
    /\ [](\A r \in Runs :
            /\ (graph.kind = "gamma" /\ Len(exec[r].calls[GammaId]) > 0
                   /\ exec[r].calls[GammaId][1].text \in {"invalid", "not_object"})
                  => exec[r].status = "Failed"
            /\ exec[r].status = "Failed" <=> ErrorEvents(r) # {}
            /\ exec[r].status = "Failed" =>
                  LET n == Len(exec[r].events) IN
                  /\ ErrorEvents(r) = {n - 1}
                  /\ exec[r].events[n - 1].node \in graph.nodes
                  /\ Len(exec[r].calls[exec[r].events[n - 1].node]) > 0
                  /\ exec[r].events[n - 1].data \in
                        {<<"JSONDecodeError">>, <<"AttributeError">>, <<"OSError">>,
                         <<"TypeError">>, <<"second delivery">>}
                  /\ exec[r].events[n].tag = "Failed"
                  /\ exec[r].events[n].node = exec[r].events[n - 1].node
                  /\ OutputEvents(r) = {}
                  /\ exec[r].output = <<>>
                  /\ \A m \in graph.nodes : exec[r].inbox[m] = <<>>
                  /\ exec[r].sleeping = {})
    /\ [][\A r \in Runs : exec[r].status = "Failed" => exec'[r] = exec[r]]_vars

\* the research agent's text was not valid JSON
C12_Witness ==
    /\ graph.kind = "gamma"
    /\ exec[1].status = "Failed"
    /\ exec[1].calls[GammaId] = <<AgentText("invalid")>>
    /\ exec[1].events[Len(exec[1].events) - 1] = Event("error", GammaId, <<"JSONDecodeError">>)

(***************************************************************************)
(* C13                                                                     *)
(***************************************************************************)
\* C13: build() ends in GraphError exactly when no start node was set or an
\* edge names a node the builder does not hold, and otherwise hands out a graph
\* whose start node and edge ends are all registered; after a GraphError no
\* execution ever leaves Pending (no step is possible at all), and no event
\* or failure of a run carries a GraphError.
C13_GraphError ==
    /\ [](graph.kind = "GraphError" =>
            /\ graph.builder.start = NoStart \/ HasUnregistered(graph.builder)
            /\ \A r \in Runs : exec[r].status = "Pending" /\ exec[r].events = <<>>)
    /\ [](graph.kind # "GraphError" =>
            /\ graph.start \in graph.nodes
            /\ ~HasUnregistered(graph)
            /\ \A r \in Runs : \A i \in 1..Len(exec[r].events) :
                  /\ exec[r].events[i].tag # "GraphError"
                  /\ exec[r].events[i].tag = "error"
                        => exec[r].events[i].data # <<"GraphError">>)
    /\ [][graph.kind # "GraphError" /\ graph' = graph]_vars

\* the builder was given an edge to a node it does not hold
C13_Witness ==
    /\ graph.kind = "GraphError"
    /\ graph.builder.start # NoStart
    /\ HasUnregistered(graph.builder)
    /\ exec[1].status = "Pending"

(***************************************************************************)
(* C14                                                                     *)
(***************************************************************************)
\* the targets of the edges out of src that must fire on v, in declaration order
RECURSIVE FiringTargets(_, _, _, _)
FiringTargets(edges, i, src, v) ==
    IF i > Len(edges) THEN <<>>
    ELSE (IF edges[i].src = src
             /\ (edges[i].cond = "none" \/ (edges[i].cond = "le_threshold" /\ v <= Threshold))
          THEN <<edges[i].dst>> ELSE <<>>)
         \o FiringTargets(edges, i + 1, src, v)

\* dispatches to node n over plain and fan-out edges
DispatchesTo(r, n) ==
    Cardinality({<<k, j>> \in (1..Len(exec[r].routed)) \X (1..(MaxWorkers + TestInputA)) :
                    /\ j <= Len(exec[r].routed[k].targets)
                    /\ exec[r].routed[k].targets[j] = n})

\* C14: for every value a node sent, the targets dispatched to are exactly the
\* targets of the edges out of that node whose predicate is absent or true on
\* the value, once per edge and in declaration order (for the splitter: every
\* worker in range(num_workers) order); every dispatch is one envelope of its
\* own, so a node other than the aggregator is invoked, or has envelopes
\* waiting, exactly as often as it was dispatched to; a value on which no
\* edge fires raises no error and invokes nothing.
C14_Routing ==
    \A r \in Runs :
        /\ \A k \in 1..Len(exec[r].routed) :
              LET s == exec[r].routed[k] IN
              /\ s.targets = FiringTargets(graph.edges, 1, s.src, s.value[1])
              /\ s.src = SplitterId => s.targets = WorkerIds(graph.num_workers)
              /\ (s.src = CheckpointId /\ s.value[1] > Threshold) => s.targets = <<>>
        /\ \A n \in graph.nodes \ {AggregatorId} :
              LET got == DispatchesTo(r, n)
                           + (IF n = graph.start /\ Started(r) THEN 1 ELSE 0) IN
              /\ Len(exec[r].calls[n]) <= got
              /\ exec[r].status = "Running"
                    => Len(exec[r].calls[n]) + Len(exec[r].inbox[n]) = got
        /\ (IsFanOut /\ Started(r) /\ InputOf(r) > Threshold) =>
              /\ ErrorEvents(r) = {} /\ exec[r].status # "Failed"
              /\ \A n \in graph.nodes \ {CheckpointId} : exec[r].calls[n] = <<>>

\* the splitter's value went to both workers, the first of which took it
C14_Witness ==
    /\ IsFanOut /\ graph.num_workers >= 2
    /\ exec[1].status = "Running"
    /\ Len(exec[1].routed) = 2
    /\ exec[1].routed[2].targets = WorkerIds(graph.num_workers)
    /\ exec[1].calls[WorkerId(0)] # <<>>
    /\ exec[1].inbox[WorkerId(1)] # <<>>

EventsOf(r, tag, node) ==
    {i \in 1..Len(exec[r].events) :
        exec[r].events[i].tag = tag /\ exec[r].events[i].node = node}
SendsOf(r, node) == {k \in 1..Len(exec[r].routed) : exec[r].routed[k].src = node}

\* C16: in the stream of an execution every worker has at most one started and
\* one completed event, its completed event comes after its started event, and
\* its result is handed to the engine (and so delivered to the fan-in) only
\* when its completed event is already in the stream; the aggregator's
\* aggregating event comes before its aggregated event, which comes before the
\* output event, the last event of the stream.
C16_EventOrder ==
    \A r \in Runs :
        IsFanOut =>
            /\ \A w \in DeclaredWorkers :
                  /\ Cardinality(EventsOf(r, "started", w)) <= 1
                  /\ Cardinality(EventsOf(r, "completed", w)) <= 1
                  /\ Cardinality(SendsOf(r, w)) <= 1
                  /\ \A j \in EventsOf(r, "completed", w) :
                        \E i \in EventsOf(r, "started", w) : i < j
                  /\ \A k \in SendsOf(r, w) :
                        \E j \in EventsOf(r, "completed", w) : j <= exec[r].routed[k].at
                  /\ w \in exec[r].delivered[AggregatorId] => SendsOf(r, w) # {}
            /\ Cardinality(EventsOf(r, "aggregating", AggregatorId)) <= 1
            /\ \A j \in EventsOf(r, "aggregated", AggregatorId) :
                  \E i \in EventsOf(r, "aggregating", AggregatorId) : i < j
            /\ \A k \in OutputEvents(r) :
                  /\ k = Len(exec[r].events)
                  /\ \E j \in EventsOf(r, "aggregated", AggregatorId) : j < k

\* two workers' events interleaved, then the aggregator's three events
C16_Witness ==
    /\ IsFanOut /\ graph.num_workers = 2
    /\ exec[1].status = "Completed"
    /\ \E i \in EventsOf(1, "started", WorkerId(1)) :
          /\ i + 1 \in EventsOf(1, "started", WorkerId(0))
          /\ i + 2 \in EventsOf(1, "completed", WorkerId(1))
          /\ i + 3 \in EventsOf(1, "completed", WorkerId(0))
          /\ i + 4 \in EventsOf(1, "aggregating", AggregatorId)
          /\ i + 5 \in EventsOf(1, "aggregated", AggregatorId)
          /\ i + 6 \in OutputEvents(1)

(***************************************************************************)
(* C17                                                                     *)
(***************************************************************************)
Asleep(r, w) == \E s \in exec[r].sleeping : s.node = w

\* C17: once the splitter has sent its value every worker holds its own
\* envelope or has been invoked; while the execution runs, a worker that holds
\* its envelope can start and a worker in its sleep can finish, whatever the
\* other workers are doing: neither step waits on another worker.
C17_Concurrent ==
    \A r \in Runs :
        (IsFanOut /\ exec[r].status = "Running") =>
            \A i \in 0..(graph.num_workers - 1) :
                /\ exec[r].calls[SplitterId] # <<>> =>
                      Len(exec[r].inbox[WorkerId(i)]) + Len(exec[r].calls[WorkerId(i)]) = 1
                /\ exec[r].inbox[WorkerId(i)] # <<>> => ENABLED WorkerStart(r, i)
                /\ Asleep(r, WorkerId(i)) => ENABLED WorkerResume(r, i)

\* every worker has started and none has completed
C17_Witness ==
    /\ IsFanOut /\ graph.num_workers = MaxWorkers
    /\ exec[1].status = "Running"
    /\ \A w \in DeclaredWorkers : Asleep(1, w)
    /\ CountEvents(1, "started") = graph.num_workers
    /\ CountEvents(1, "completed") = 0

(***************************************************************************)
(* C18                                                                     *)
(***************************************************************************)
\* C18: every WorkerResult that reaches the fan-in or the aggregator carries
\* as input_value the value the splitter sent, which is the input of the
\* execution; in every sequence handed to the aggregator the worker_ids are
\* pairwise distinct and are exactly the ids of the declared workers.
C18_ResultsCarryInput ==
    \A r \in Runs :
        (IsFanOut /\ Started(r)) =>
            /\ \A k \in SendsOf(r, SplitterId) : exec[r].routed[k].value = <<InputOf(r)>>
            /\ \A res \in ResultsOf(r) :
                  /\ SendsOf(r, SplitterId) # {}
                  /\ \A k \in SendsOf(r, SplitterId) :
                        res.input_value = exec[r].routed[k].value[1]
                  /\ res.input_value = InputOf(r)
                  /\ res.worker_id \in DeclaredWorkers
            /\ \A k \in 1..Len(Handed(r)) :
                  LET rs == Handed(r)[k] IN
                  /\ \A i, j \in 1..Len(rs) : i # j => rs[i].worker_id # rs[j].worker_id
                  /\ {rs[i].worker_id : i \in 1..Len(rs)} = DeclaredWorkers

\* the aggregator was invoked with the results of the widest graph on input 8
C18_Witness ==
    /\ IsFanOut /\ graph.num_workers = MaxWorkers
    /\ Len(exec[1].calls[AggregatorId]) = 1
    /\ InputOf(1) = TestInputC
    /\ \A i \in 1..MaxWorkers : exec[1].calls[AggregatorId][1][i].input_value = TestInputC

(***************************************************************************)
(* C19                                                                     *)
(***************************************************************************)
GroupMembers == UNION {SeqRange(grp.sources) : grp \in graph.fanin}
GroupIncomplete(r) == exec[r].delivered[AggregatorId] # GroupMembers
GroupPartlyFilled(r) == GroupIncomplete(r) /\ exec[r].delivered[AggregatorId] # {}

\* C19 as stated: while the fan-in group is incomplete the aggregator has not
\* been invoked and the execution is neither Halted nor Completed.
C19_IncompleteNeverEnds ==
    \A r \in Runs :
        (IsFanOut /\ Started(r) /\ GroupIncomplete(r)) =>
            /\ Handed(r) = <<>>
            /\ exec[r].status \notin {"Halted", "Completed"}

\* C19 amended: while the group is incomplete the aggregator has not been
\* invoked or dispatched; while some but not all members have delivered the
\* execution is neither Halted nor Completed, and no step but a cancellation
\* takes it out of Running: with nothing else in flight it stays pending, and
\* no timeout ends it.  (A group no member of which delivered does not keep
\* the execution from halting.)
C19_PartialGroupPends ==
    /\ [](\A r \in Runs :
            (IsFanOut /\ Started(r)) =>
               /\ GroupIncomplete(r) => Handed(r) = <<>>
               /\ GroupPartlyFilled(r) => exec[r].status \in {"Running", "Cancelled"}
               /\ (GroupPartlyFilled(r) /\ exec[r].status = "Running")
                     => Len(exec[r].acc[AggregatorId])
                           = Cardinality(exec[r].delivered[AggregatorId]))
    /\ [][\A r \in Runs :
            (IsFanOut /\ GroupPartlyFilled(r) /\ exec[r].status = "Running")
               => exec'[r].status \in {"Running", "Cancelled"}]_vars
    /\ [][\A r \in Runs :
            (IsFanOut /\ GroupPartlyFilled(r) /\ exec[r].status = "Running"
               /\ QuiescentButFanIn(exec[r]))
               => (exec'[r] = exec[r] \/ exec'[r].status = "Cancelled")]_vars

\* every dispatched worker has delivered, the last member never will, and
\* the execution is still running with nothing in flight
C19_Witness ==
    /\ IsFanOut /\ graph.num_workers >= 2
    /\ exec[1].status = "Running"
    /\ exec[1].delivered[AggregatorId] = DeclaredWorkers \ {WorkerId(graph.num_workers - 1)}
    /\ exec[1].calls[WorkerId(graph.num_workers - 1)] = <<>>
    /\ QuiescentButFanIn(exec[1])
    /\ ~ENABLED Halt(1)

(***************************************************************************)
(* C20                                                                     *)
(***************************************************************************)
\* the step hands the engine a value sent by a member that has delivered before
SecondDelivery(r) ==
    /\ exec[r].status = "Running"
    /\ Len(exec'[r].routed) = Len(exec[r].routed) + 1
    /\ exec'[r].routed[Len(exec'[r].routed)].src \in exec[r].delivered[AggregatorId]

\* C20: a step in which a fan-in member delivers a second value leaves the
\* accumulated sequence and the delivered set as they were, adds an error
\* event naming that member, and ends the execution in Failed; no accumulated
\* or handed-over sequence ever holds two results of one member, and an
\* execution fails for no other reason.
C20_SecondDelivery ==
    /\ [][\A r \in Runs : SecondDelivery(r) =>
            LET w == exec'[r].routed[Len(exec'[r].routed)].src
                n == Len(exec'[r].events) IN
            /\ exec'[r].status = "Failed"
            /\ exec'[r].acc = exec[r].acc
            /\ exec'[r].delivered = exec[r].delivered
            /\ exec'[r].inbox[AggregatorId] = <<>>
            /\ exec'[r].events[n - 1] = Event("error", w, <<"second delivery">>)
            /\ exec'[r].events[n] = Event("Failed", w, <<>>)]_vars
    /\ [](\A r \in Runs :
            /\ \A i, j \in 1..Len(exec[r].acc[AggregatorId]) :
                  i # j => exec[r].acc[AggregatorId][i].worker_id
                              # exec[r].acc[AggregatorId][j].worker_id
            /\ \A k \in 1..Len(Handed(r)) : \A i, j \in 1..Len(Handed(r)[k]) :
                  i # j => Handed(r)[k][i].worker_id # Handed(r)[k][j].worker_id
            /\ exec[r].status = "Failed" =>
                  /\ Cardinality(SendsOf(r, WorkerId(0))) = 2
                  /\ exec[r].output = <<>>)

\* the first worker's second result arrived while its first was accumulated
C20_Witness ==
    /\ graph.num_workers >= 2
    /\ exec[1].status = "Failed"
    /\ exec[1].events[Len(exec[1].events) - 1]
          = Event("error", WorkerId(0), <<"second delivery">>)
    /\ Len(exec[1].acc[AggregatorId]) = 1
    /\ exec[1].acc[AggregatorId][1].worker_id = WorkerId(0)

(***************************************************************************)
(* C21                                                                     *)
(***************************************************************************)
\* C21: a running execution with a suspended invocation can be cancelled; a
\* step that ends an execution and leaves invocations behind in their sleep is
\* the cancellation and ends it in Cancelled; it keeps every event emitted before
\* and adds the Cancelled event only; a Cancelled execution has no error
\* event, no output event and no output.
C21_CancelWhileSuspended ==
    /\ [](\A r \in Runs :
            /\ (exec[r].status = "Running" /\ exec[r].sleeping # {}) => ENABLED Cancel(r)
            /\ exec[r].status = "Cancelled" =>
                  /\ ErrorEvents(r) = {}
                  /\ OutputEvents(r) = {}
                  /\ exec[r].output = <<>>)
    /\ [][\A r \in Runs :
            (exec[r].status = "Running" /\ exec'[r].status \in TerminalStates
               /\ exec'[r].late # {}) =>
                  /\ exec'[r].status = "Cancelled"
                  /\ exec'[r].late = exec[r].sleeping
                  /\ exec'[r].events
                        = Append(exec[r].events, Event("Cancelled", graph.start, <<>>))
                  /\ exec'[r].io = exec[r].io]_vars

\* cancelled while call_gamma_api waited in the sleep of its polling loop
C21_Witness ==
    /\ graph.kind = "gamma"
    /\ exec[1].status = "Cancelled"
    /\ \E s \in exec[1].late : s.node = GammaId
    /\ Len(exec[1].events) = 3
    /\ exec[1].io[Len(exec[1].io)] = [call |-> "get", outcome |-> "pending"]

(***************************************************************************)
(* C22                                                                     *)
(***************************************************************************)
IOCalls(r, call) == {i \in 1..Len(exec[r].io) : exec[r].io[i].call = call}
IODone(r, call, outcome) ==
    \E i \in IOCalls(r, call) : exec[r].io[i].outcome = outcome
GammaErrors ==
    {"Error: GAMMA_API_KEY not found in environment", "Gamma API Error",
     "No generation ID in response", "No PDF URL in response",
     "Exception calling Gamma API"}
\* the execution ended by what call_gamma_api did (it was not cancelled)
GammaEnded(r) ==
    /\ graph.kind = "gamma"
    /\ IODone(r, "open", "ok")
    /\ exec[r].status \in {"Completed", "Failed"}
GammaSucceeded(r) ==
    /\ IODone(r, "post", "ok")
    /\ exec[r].io[Len(exec[r].io) - 1] = [call |-> "get", outcome |-> "completed"]
    /\ exec[r].io[Len(exec[r].io)] = [call |-> "download", outcome |-> "ok"]

\* C22 as stated: once the JSON is parsed and the debug file written, the
\* invocation ends with exactly one output, never in Failed; the output is the
\* success message exactly when POST, poll and download all succeeded, and an
\* error message otherwise.
C22_AlwaysYields ==
    \A r \in Runs :
        GammaEnded(r) =>
            /\ exec[r].status = "Completed"
            /\ Cardinality(OutputEvents(r)) = 1
            /\ exec[r].output[1] = "Presentation created successfully" <=> GammaSucceeded(r)
            /\ ~GammaSucceeded(r) => exec[r].output[1] \in GammaErrors

\* C22 amended: the same when number_of_slides is a number; when it is not
\* and the key is set, building the payload raises before the try block and
\* the execution is Failed with no output.  While the invocation has not
\* ended it waits in the sleep of its polling loop, which polls at most
\* MaxPolls times.
C22_YieldsOncePayloadBuilt ==
    \A r \in Runs :
        (graph.kind = "gamma" /\ IODone(r, "open", "ok")) =>
            LET text == exec[r].calls[GammaId][1].text IN
            /\ Cardinality(IOCalls(r, "get")) <= MaxPolls
            /\ Cardinality(IOCalls(r, "post")) <= 1
            /\ Cardinality(IOCalls(r, "download")) <= 1
            /\ exec[r].status = "Running" => \E s \in exec[r].sleeping : s.node = GammaId
            /\ (GammaEnded(r) /\ text = "object") =>
                  /\ exec[r].status = "Completed"
                  /\ Cardinality(OutputEvents(r)) = 1
                  /\ exec[r].output[1] = "Presentation created successfully"
                        <=> GammaSucceeded(r)
                  /\ ~GammaSucceeded(r) => exec[r].output[1] \in GammaErrors
            /\ (GammaEnded(r) /\ text # "object") =>
                  /\ text = "object_bad_slides"
                  /\ IOCalls(r, "post") = {}
                  /\ \/ exec[r].output
                           = <<"Error: GAMMA_API_KEY not found in environment">>
                     \/ /\ exec[r].status = "Failed"
                        /\ exec[r].output = <<>>
                        /\ exec[r].events[Len(exec[r].events) - 1]
                              = Event("error", GammaId, <<"TypeError">>)

\* the polling loop ran out of time and the handler yielded the exception
C22_Witness ==
    /\ graph.kind = "gamma"
    /\ exec[1].status = "Completed"
    /\ exec[1].calls[GammaId] = <<AgentText("object")>>
    /\ Cardinality(IOCalls(1, "get")) = MaxPolls
    /\ ~IODone(1, "get", "completed") /\ ~IODone(1, "get", "raise")
    /\ exec[1].output = <<"Exception calling Gamma API">>

(***************************************************************************)
(* The Gamma client                                                        *)
(***************************************************************************)
\* the HTTP requests of the call so far, and its polls, in order
HttpLog == SelectSeq(client.log, LAMBDA e : e.call \in {"POST", "GET", "download"})
GetLog == SelectSeq(client.log, LAMBDA e : e.call = "GET")
CompletedPolls == {i \in 1..Len(GetLog) : GetLog[i].outcome = "completed"}
Polling == client.pc \in {"poll", "sleep"}
\* create_presentation was entered and has ended
PresentationEnded == client.pc = "done" /\ HttpLog # <<>>

\* C23: GammaAPIClient._poll_for_completion always ends; what it returns is
\* the body of a poll answered 200 with status 'completed', the last poll
\* made; when it ends without such a poll it raises TimeoutError, max_wait
\* seconds or more after it started
C23_PollEnds ==
    /\ [](/\ client.polled # <<>> =>
                /\ client.polled[1].status = "completed"
                /\ CompletedPolls = {Len(GetLog)}
          /\ (~Polling /\ HttpLog # <<>> /\ HttpLog[1].outcome = "ok"
                /\ client.polled = <<>>) =>
                /\ client.raised = <<"TimeoutError">>
                /\ client.now - client.start >= MaxWait
                /\ CompletedPolls = {})
    /\ (Polling ~> ~Polling)

\* a poll loop that returned the completed data after a poll that had not
C23_Witness ==
    /\ client.polled # <<>>
    /\ Len(GetLog) >= 2

C25_StepsInOrder ==
    \A i \in 1..Len(HttpLog) :
        LET e == HttpLog[i] IN
        /\ e.call = "POST" => i = 1 /\ (e.outcome # "ok" => Len(HttpLog) = 1)
        /\ e.call = "GET" =>
              /\ i > 1
              /\ HttpLog[1].call = "POST" /\ HttpLog[1].outcome = "ok"
              /\ HttpLog[i - 1].call \in {"POST", "GET"}
              /\ HttpLog[i - 1].call = "GET" => HttpLog[i - 1].outcome # "completed"
        /\ e.call = "download" =>
              /\ i = Len(HttpLog) /\ i > 1
              /\ HttpLog[i - 1].call = "GET" /\ HttpLog[i - 1].outcome = "completed"
              /\ client.polled # <<>> /\ client.polled[1].exportUrl

\* a completed poll without exportUrl ended the call before any download
C25_Witness ==
    /\ PresentationEnded
    /\ client.polled # <<>> /\ ~client.polled[1].exportUrl
    /\ HttpLog[Len(HttpLog)].call = "GET"

\* C27: a poll that failed or was not answered 200 is followed by a sleep of
\* poll_interval and the loop test again; the loop is left only with the
\* completed data or with TimeoutError once max_wait has elapsed
C27_PollRetries ==
    [][/\ (client.pc = "poll" /\ client'.pc # "poll") =>
              \/ client'.pc = "sleep"
              \/ /\ client'.polled # <<>>
                 /\ client'.log[Len(client'.log)].outcome = "completed"
              \/ /\ client'.raised = <<"TimeoutError">>
                 /\ client.now - client.start >= MaxWait
       /\ (client.pc = "poll" /\ Len(client'.log) > Len(client.log)
              /\ client'.log[Len(client'.log)].outcome \in {"raise", "non_200"}) =>
              client'.pc = "sleep"
       /\ client.pc = "sleep" =>
              /\ client'.pc = "poll"
              /\ client'.now = client.now + poll_interval]_vars

\* a failed poll and a poll answered non-200, then TimeoutError
C27_Witness ==
    /\ client.raised = <<"TimeoutError">>
    /\ \E i \in 1..Len(GetLog) : GetLog[i].outcome = "raise"
    /\ \E i \in 1..Len(GetLog) : GetLog[i].outcome = "non_200"

\* C28: generate_presentation_from_content always returns a dict: the one
\* with success True and generation_id, pdf_url, pdf_path exactly when the
\* client's POST, poll and download all succeeded, and otherwise (a debug
\* file that cannot be written, the constructor's ValueError, a ValueError,
\* TimeoutError, RuntimeError or OSError of create_presentation) the one
\* with success False and the error
C28_NeverRaises ==
    client.pc = "done" =>
        /\ Len(client.result) = 1
        /\ LET res == client.result[1] IN
           /\ res.success <=>
                 /\ HttpLog # <<>> /\ HttpLog[1].outcome = "ok"
                 /\ CompletedPolls # {}
                 /\ HttpLog[Len(HttpLog)].call = "download"
                 /\ HttpLog[Len(HttpLog)].outcome = "ok"
                 /\ client.raised = <<>>
           /\ res.success =>
                 DOMAIN res = {"success", "generation_id", "pdf_url", "pdf_path"}
           /\ ~res.success =>
                 /\ DOMAIN res = {"success", "error"}
                 /\ client.raised = <<res.error>>

\* the failure dict returned for an empty API key or base URL
C28_Witness ==
    /\ client.pc = "done"
    /\ client.log[Len(client.log)] =
           [call |-> "GammaAPIClient", outcome |-> "raise", at |-> 0]
    /\ client.result = <<[success |-> FALSE, error |-> "ValueError"]>>

(***************************************************************************)
(* The search tool                                                         *)
(***************************************************************************)
Searched == search.pc = "done" /\ search.queries # <<>>
FailedTasks == {i \in 1..Len(search.tasks) :
                    search.tasks[i].result # <<>> /\ search.tasks[i].result[1].error # "None"}
QuerySet == {search.queries[i] : i \in 1..Len(search.queries)}
Occurrences(q) == {i \in 1..Len(search.queries) : search.queries[i] = q}
LastOccurrence(q) == CHOOSE i \in Occurrences(q) : \A j \in Occurrences(q) : j <= i
\* no task is held back by another one, and every task has run at the return
SearchConcurrent ==
    /\ search.pc = "gather" =>
          \A i \in 1..Len(search.tasks) :
              (search.tasks[i].state = "pending"
                 /\ \A j \in 1..(i - 1) : search.tasks[j].state # "pending")
              => ENABLED SearchStart(i)
    /\ search.pc = "done" =>
          \A i \in 1..Len(search.tasks) : search.tasks[i].result # <<>>
EmptyAnswered ==
    (search.pc = "done" /\ search.queries = <<>>) =>
        /\ search.output = <<[error |-> "No queries provided"]>>
        /\ search.tasks = <<>>

\* C26 as stated: 'errors' names exactly the queries whose 'results' entry is
\* empty because of a failure, so a query named in 'errors' has an empty list
C26_ErrorsNameEmptyResults ==
    Searched =>
        LET out == search.output[1] IN
        /\ DOMAIN out.results = QuerySet
        /\ ("errors" \in DOMAIN out) <=> (FailedTasks # {})
        /\ "errors" \in DOMAIN out =>
              /\ DOMAIN out.errors = {search.queries[i] : i \in FailedTasks}
              /\ \A q \in DOMAIN out.errors : out.results[q] = <<>>

\* C26: the empty list is answered with the 'No queries provided' error and
\* no search; otherwise the searches run concurrently and each one ends
\* whatever the others do, 'results' has an entry for every query, 'errors'
\* is present exactly when a search failed and names the queries with a failed
\* search; the entry of a query is what its last search in the list gave:
\* the empty list if that search failed, whether or not the query is in 'errors'
C26_SearchWeb ==
    /\ EmptyAnswered
    /\ SearchConcurrent
    /\ Searched =>
          LET out == search.output[1] IN
          /\ DOMAIN out.results = QuerySet
          /\ ("errors" \in DOMAIN out) <=> (FailedTasks # {})
          /\ "errors" \in DOMAIN out =>
                DOMAIN out.errors = {search.queries[i] : i \in FailedTasks}
          /\ \A q \in QuerySet :
                out.results[q] = search.tasks[LastOccurrence(q)].result[1].results
          /\ \A q \in QuerySet :
                LastOccurrence(q) \in FailedTasks => out.results[q] = <<>>

\* a query asked twice whose first search failed and whose second gave hits
C26_Witness ==
    /\ Searched
    /\ "errors" \in DOMAIN search.output[1]
    /\ \E q \in QuerySet :
          /\ q \in DOMAIN search.output[1].errors
          /\ search.output[1].results[q] # <<>>

(***************************************************************************)
(* The chat loop                                                           *)
(***************************************************************************)
TurnErrors == {"error", "invalid_slides", "failed"}

\* C29: Gamma generation runs in a turn only for a streamed response that is
\* non-empty, parses as OrchestratorOutput and has number_of_slides > 0; a
\* turn that goes wrong ends at the next prompt with no generation left
\* running; the session ends only by '/exit' or by KeyboardInterrupt
C29_ChatLoop ==
    /\ [](/\ (client.pc # "idle" \/ chat.pc = "generating") =>
                /\ chat.response # <<>>
                /\ HasText(chat.response[1])
                /\ model_validate_json(chat.response[1]) = "ok"
                /\ chat.response[1].number_of_slides > 0
          /\ chat.pc = "ended" => chat.ended_by \in {"/exit", "KeyboardInterrupt"})
    /\ [][/\ (chat.pc \in {"streaming", "generating"} /\ chat'.pc # chat.pc) =>
                \/ chat'.pc = "prompt" /\ client'.pc = "idle"
                \/ chat.pc = "streaming" /\ chat'.pc = "generating"
                \/ chat'.pc = "ended" /\ chat'.ended_by = "KeyboardInterrupt"
          /\ (chat.pc = "prompt" /\ chat'.pc = "ended" /\ chat'.ended_by = "/exit") =>
                client.pc = "idle"]_vars

\* a session back at the prompt after a turn whose generation failed
C29_Witness ==
    /\ chat.pc = "prompt"
    /\ chat.last = "failed"
    /\ client.pc = "idle"

====
